---- MODULE Spec2Model ----
(***************************************************************************)
(* Verification model of parts of Azure Data Studio's extension suite:     *)
(*   - the form validation helper (ui/validation/validations), driven by   *)
(*     its test suite;                                                     *)
(*   - the SQL project model (models/project), driven by project.test.ts;  *)
(*   - the proxy of the user data auto sync service of the shared process; *)
(*   - the notebook extension's JupyterServerInstallation: the Python      *)
(*     installation process, its packages and its kernel setup cache;      *)
(*   - the browse tab of the connection dialog: its filter and expandAll;  *)
(*   - the new project dialog of the data workspace extension.             *)
(***************************************************************************)
EXTENDS Integers, Sequences, FiniteSets, TLC

VARIABLES
    validation,     \* the Validation object under test (or NoValidation)
    validationResult, \* the ValidationResult of the last validate() call
    expected,       \* the test row's expected verdict, as a set ({} = no test row)
    inputBoxCalls,  \* calls of inputBox.updateProperty(key, value), in order
    inputBoxReturn, \* what validateInputBoxComponent returned, as a set ({} = not called)
    validationList, \* the list last handed to validateInputBoxComponent
    projFile,       \* the .sqlproj document: its elements in document order
    backupFile,     \* the <project file>_backup file, as a set ({} = no such file)
    scriptFiles,    \* the script files on disk: path -> contents
    project,        \* the Project object: its in-memory lists
    before,         \* the Project object and the document before the last call
    calls,          \* the calls made on the project: operation, argument, error thrown
    messages,       \* the information messages shown, in order
    pc,             \* where updateProjectForRoundTrip stands
    baseline,       \* the name of the baseline the project file was created from
    channel,        \* UserDataAutoSyncService.channel: the name of the channel it got
    channelCalls,   \* the calls made on the channel: command, argument, promise returned
    serviceCalls,   \* the calls made on the service: method, arguments, promise returned
    platform,       \* process.platform
    runningPython,  \* the install paths a python process is running from
    installedPip,   \* what pip has installed: package name -> version (<<>> = none)
    notebookConfig, \* the persisted notebook settings: pythonPath, useExistingPython
    pythonInstallationPath, \* JupyterServerInstallation._pythonInstallationPath
    usingExistingPython,    \* JupyterServerInstallation._usingExistingPython
    pythonExecutable,       \* JupyterServerInstallation._pythonExecutable
    installInProgress,      \* JupyterServerInstallation._installInProgress
    installCompletion,      \* JupyterServerInstallation._installCompletion (0 = undefined)
    kernelSetupCache,       \* the kernels JupyterServerInstallation._kernelSetupCache maps to true
    completions,    \* the Deferreds created so far: the state of each one's promise
    caller,         \* the startInstallProcess calls: where each stands and what it returned
    operations,     \* the background operations started, each with its task log
    packageCalls,   \* the package calls (check, prompt, uninstall): where each stands
    dataSourceFilter,   \* DataSource._filter of the browse tab, as a set ({} = undefined)
    treeNodes,      \* DataSource.treeNodes
    loaded,         \* the nodes whose children the tree has asked the data source for
    outstanding,    \* the tree.expand calls not yet resolved: <<run, node>>
    filterRuns,     \* the applyFilter runs: where each stands, and its expandAll's lists
    dialogModel,    \* NewProjectDialog.model: the name and location typed in
    fileSystem,     \* the directories the dialog looks at, and the paths stat fails on
    dialogMessage,  \* the error message the dialog shows, as a set ({} = none)
    validateRuns    \* the validate() calls: where each stands and what it returned

validationVars == <<validation, validationResult, expected, inputBoxCalls,
                    inputBoxReturn, validationList>>

projectVars == <<projFile, backupFile, scriptFiles, project, before, calls, messages,
                 pc, baseline>>

syncVars == <<channel, channelCalls, serviceCalls>>

installVars == <<platform, runningPython, installedPip, notebookConfig,
                 pythonInstallationPath, usingExistingPython, pythonExecutable,
                 installInProgress, installCompletion, kernelSetupCache, completions,
                 caller, operations, packageCalls>>

browseVars == <<dataSourceFilter, treeNodes, loaded, outstanding, filterRuns>>

dialogVars == <<dialogModel, fileSystem, dialogMessage, validateRuns>>

vars == <<validationVars, projectVars, syncVars, installVars, browseVars, dialogVars>>

\* what the actions of one part leave alone
notValidation == <<dialogVars, projectVars, syncVars, installVars, browseVars>>
notProject == <<dialogVars, validationVars, syncVars, installVars, browseVars>>
notSync == <<dialogVars, validationVars, projectVars, installVars, browseVars>>
notInstall == <<dialogVars, validationVars, projectVars, syncVars, browseVars>>
notBrowse == <<validationVars, projectVars, syncVars, installVars, dialogVars>>
notDialog == <<validationVars, projectVars, syncVars, installVars, browseVars>>

----------------------------------------------------------------------------
(* JavaScript values of type ValidationValueType = string | number | undefined. *)
(* A string is a sequence of one-character strings.  A (non-negative, finite)   *)
(* number is a decimal: the digits of its integer part without leading zeros    *)
(* and the digits of its fraction without trailing zeros.                       *)

Undefined == [t |-> "undefined", ip |-> <<>>, fp |-> <<>>, s |-> <<>>]
NaN == [t |-> "nan", ip |-> <<>>, fp |-> <<>>, s |-> <<>>]
Num(ip, fp) == [t |-> "number", ip |-> ip, fp |-> fp, s |-> <<>>]
Str(s) == [t |-> "string", ip |-> <<>>, fp |-> <<>>, s |-> s]

IsString(v) == v.t = "string"
IsNumberType(v) == v.t \in {"number", "nan"}   \* typeof v === 'number'

DigitChars == <<"0", "1", "2", "3", "4", "5", "6", "7", "8", "9">>
IsDigit(c) == \E i \in 1..10 : DigitChars[i] = c
DigitOf(c) == (CHOOSE i \in 1..10 : DigitChars[i] = c) - 1
CharOf(d) == DigitChars[d + 1]

\* UTF-16 code units of the characters the inputs use
CharCode ==
    ("-" :> 45) @@ ("." :> 46) @@
    ("0" :> 48) @@ ("1" :> 49) @@ ("2" :> 50) @@ ("3" :> 51) @@ ("4" :> 52) @@
    ("5" :> 53) @@ ("6" :> 54) @@ ("7" :> 55) @@ ("8" :> 56) @@ ("9" :> 57) @@
    ("N" :> 78) @@ ("S" :> 83) @@
    ("a" :> 97) @@ ("b" :> 98) @@ ("e" :> 101) @@ ("g" :> 103) @@ ("i" :> 105) @@
    ("n" :> 110) @@ ("r" :> 114) @@ ("t" :> 116) @@ ("y" :> 121)

LowerCaseChars == {c \in DOMAIN CharCode : CharCode[c] >= 97 /\ CharCode[c] <= 122}

RECURSIVE StripLeadingZeros(_)
StripLeadingZeros(ds) ==
    IF ds # <<>> /\ Head(ds) = 0 THEN StripLeadingZeros(Tail(ds)) ELSE ds

RECURSIVE StripTrailingZeros(_)
StripTrailingZeros(ds) ==
    IF ds # <<>> /\ ds[Len(ds)] = 0
    THEN StripTrailingZeros(SubSeq(ds, 1, Len(ds) - 1))
    ELSE ds

Normalize(ip, fp) == Num(StripLeadingZeros(ip), StripTrailingZeros(fp))

\* the decimal ip.fp times 10^e
RECURSIVE Scale(_, _, _)
Scale(ip, fp, e) ==
    IF e = 0 THEN Normalize(ip, fp)
    ELSE IF e > 0
    THEN Scale(ip \o <<(IF fp = <<>> THEN 0 ELSE Head(fp))>>,
               IF fp = <<>> THEN <<>> ELSE Tail(fp), e - 1)
    ELSE Scale(IF ip = <<>> THEN <<>> ELSE SubSeq(ip, 1, Len(ip) - 1),
               <<(IF ip = <<>> THEN 0 ELSE ip[Len(ip)])>> \o fp, e + 1)

\* lexicographic order of two sequences of integers: -1, 0 or 1
RECURSIVE CompareSeq(_, _)
CompareSeq(a, b) ==
    IF a = <<>> /\ b = <<>> THEN 0
    ELSE IF a = <<>> THEN -1
    ELSE IF b = <<>> THEN 1
    ELSE IF Head(a) < Head(b) THEN -1
    ELSE IF Head(a) > Head(b) THEN 1
    ELSE CompareSeq(Tail(a), Tail(b))

\* numeric order of two decimals: -1, 0 or 1
CompareNum(x, y) ==
    IF Len(x.ip) < Len(y.ip) THEN -1
    ELSE IF Len(x.ip) > Len(y.ip) THEN 1
    ELSE IF CompareSeq(x.ip, y.ip) # 0 THEN CompareSeq(x.ip, y.ip)
    ELSE CompareSeq(x.fp, y.fp)

CodeUnits(s) == [i \in 1..Len(s) |-> CharCode[s[i]]]

----------------------------------------------------------------------------
(* String to number conversion: StrDecimalLiteral of the ECMAScript grammar *)
(* (unsigned), read by a finite automaton.                                  *)

LiteralStep(q, c) ==
    CASE q = "start" /\ IsDigit(c) -> "int"
      [] q = "start" /\ c = "."    -> "dot0"
      [] q = "int"   /\ IsDigit(c) -> "int"
      [] q = "int"   /\ c = "."    -> "dotI"
      [] q = "int"   /\ c = "e"    -> "e"
      [] q = "dot0"  /\ IsDigit(c) -> "frac"
      [] q = "dotI"  /\ IsDigit(c) -> "frac"
      [] q = "dotI"  /\ c = "e"    -> "e"
      [] q = "frac"  /\ IsDigit(c) -> "frac"
      [] q = "frac"  /\ c = "e"    -> "e"
      [] q = "e"     /\ IsDigit(c) -> "exp"
      [] q = "e"     /\ c = "-"    -> "sign"
      [] q = "sign"  /\ IsDigit(c) -> "exp"
      [] q = "exp"   /\ IsDigit(c) -> "exp"
      [] OTHER -> "bad"

RECURSIVE LiteralState(_, _)
LiteralState(q, s) ==
    IF s = <<>> THEN q ELSE LiteralState(LiteralStep(q, Head(s)), Tail(s))

IsDecimalLiteral(s) == LiteralState("start", s) \in {"int", "dotI", "frac", "exp"}

RECURSIVE TakeDigits(_)
TakeDigits(s) ==
    IF s # <<>> /\ IsDigit(Head(s)) THEN <<DigitOf(Head(s))>> \o TakeDigits(Tail(s)) ELSE <<>>

Drop(s, n) == SubSeq(s, n + 1, Len(s))

RECURSIVE DigitsToNat(_)
DigitsToNat(ds) ==
    IF ds = <<>> THEN 0 ELSE 10 * DigitsToNat(SubSeq(ds, 1, Len(ds) - 1)) + ds[Len(ds)]

\* the mathematical value of a decimal literal: integer part, fraction, exponent
ExponentOf(r) ==
    IF r = <<>> THEN 0
    ELSE IF Len(r) >= 2 /\ r[2] = "-" THEN 0 - DigitsToNat(TakeDigits(Drop(r, 2)))
    ELSE DigitsToNat(TakeDigits(Tail(r)))

WithFraction(ipPart, fpPart, r) == Scale(ipPart, fpPart, ExponentOf(Drop(r, Len(fpPart))))

WithInteger(ipPart, r) ==
    IF r # <<>> /\ Head(r) = "."
    THEN WithFraction(ipPart, TakeDigits(Tail(r)), Tail(r))
    ELSE Scale(ipPart, <<>>, ExponentOf(r))

LiteralValue(s) == WithInteger(TakeDigits(s), Drop(s, Len(TakeDigits(s))))

\* Number(s) for a string s
StringToNumber(s) ==
    IF s = <<>> THEN Num(<<>>, <<>>)
    ELSE IF IsDecimalLiteral(s) THEN LiteralValue(s)
    ELSE NaN

\* parseFloat(s): the longest prefix of s that is a decimal literal
parseFloat(s) ==
    LET ks == {k \in 1..Len(s) : IsDecimalLiteral(SubSeq(s, 1, k))}
    IN  IF ks = {} THEN NaN
        ELSE LiteralValue(SubSeq(s, 1, CHOOSE k \in ks : \A j \in ks : j <= k))

ToNumber(v) ==
    CASE v.t = "undefined" -> NaN
      [] v.t = "string"    -> StringToNumber(v.s)
      [] OTHER             -> v

\* Number.prototype.toString for a decimal
NumberToString(v) ==
    IF v.t = "nan" THEN <<"N", "a", "N">>
    ELSE (IF v.ip = <<>> THEN <<"0">> ELSE [i \in 1..Len(v.ip) |-> CharOf(v.ip[i])])
         \o (IF v.fp = <<>> THEN <<>> ELSE <<".">> \o [i \in 1..Len(v.fp) |-> CharOf(v.fp[i])])

NumberIsInteger(v) == v.t = "number" /\ v.fp = <<>>

\* Abstract relational comparison x < y: "true", "false" or "undefined"
LessThan(x, y) ==
    IF IsString(x) /\ IsString(y)
    THEN IF CompareSeq(CodeUnits(x.s), CodeUnits(y.s)) < 0 THEN "true" ELSE "false"
    ELSE LET nx == ToNumber(x)
             ny == ToNumber(y)
         IN  IF nx.t = "nan" \/ ny.t = "nan" THEN "undefined"
             ELSE IF CompareNum(nx, ny) < 0 THEN "true" ELSE "false"

\* x <= y  and  x >= y
LessThanOrEqual(x, y) == LessThan(y, x) = "false"
GreaterThanOrEqual(x, y) == LessThan(x, y) = "false"

\* RegExp.test for a regular expression ^[class]+$, given by its character class
RegexTest(class, s) == Len(s) >= 1 /\ \A i \in 1..Len(s) : s[i] \in class

Digits09 == {DigitChars[i] : i \in 1..10}

----------------------------------------------------------------------------
(* ui/validation/validations: the Validation classes.  A validation object  *)
(* holds its class, its description, its regular expression (the character  *)
(* class of ^[..]+$), and what its value getter and its variable value      *)
(* getter resolve to.                                                       *)

MaxStrLen == 2          \* longest string among the freely chosen operands
MaxValidations == 2     \* longest list handed to validateInputBoxComponent

ValidationType == {"IsInteger", "Regex", "LessThanOrEqualsTo", "GreaterThanOrEqualsTo"}

NoValidation == [class |-> "none", description |-> <<"", Undefined, Undefined>>,
                 regex |-> {}, value |-> Undefined, targetValue |-> Undefined]

NewValidation(class, description, regex, value, targetValue) ==
    [class |-> class, description |-> description, regex |-> regex,
     value |-> value, targetValue |-> targetValue]

IntegerValidation(description, value) ==
    NewValidation("IntegerValidation", description, {}, value, Undefined)
RegexValidation(description, regex, value) ==
    NewValidation("RegexValidation", description, regex, value, Undefined)
LessThanOrEqualsValidation(description, value, targetValue) ==
    NewValidation("LessThanOrEqualsValidation", description, {}, value, targetValue)
GreaterThanOrEqualsValidation(description, value, targetValue) ==
    NewValidation("GreaterThanOrEqualsValidation", description, {}, value, targetValue)

\* IntegerValidation.isInteger
isInteger(v) ==
    IF IsString(v.value) THEN NumberIsInteger(parseFloat(v.value.s))
    ELSE NumberIsInteger(v.value)

\* RegexValidation: the value is converted to a string unless it is undefined
regexMatches(v) ==
    IF v.value.t = "undefined" THEN FALSE
    ELSE RegexTest(v.regex, IF IsString(v.value) THEN v.value.s ELSE NumberToString(v.value))

\* LessThanOrEqualsValidation.isComparisonSuccessful
LessThanOrEqualsIsSuccessful(v) == LessThanOrEqual(v.value, v.targetValue)

\* GreaterThanOrEqualsValidation.isComparisonSuccessful
GreaterThanOrEqualsIsSuccessful(v) == GreaterThanOrEqual(v.value, v.targetValue)

isValid(v) ==
    CASE v.class = "IntegerValidation" -> isInteger(v)
      [] v.class = "RegexValidation" -> regexMatches(v)
      [] v.class = "LessThanOrEqualsValidation" -> LessThanOrEqualsIsSuccessful(v)
      [] v.class = "GreaterThanOrEqualsValidation" -> GreaterThanOrEqualsIsSuccessful(v)

\* Validation.validate(): { valid, message }; the message is a set, {} for undefined
ValidationResult(valid, description) ==
    [valid |-> valid, message |-> IF valid THEN {} ELSE {description}]
validate(v) == ValidationResult(isValid(v), v.description)

NoResult == [valid |-> FALSE, message |-> {}]

\* createValidation(validation, valueGetter, variableValueGetter)
createValidation(info, value, targetValue) ==
    CASE info.type = "Regex" -> RegexValidation(info.description, info.regex, value)
      [] info.type = "IsInteger" -> IntegerValidation(info.description, value)
      [] info.type = "LessThanOrEqualsTo" ->
            LessThanOrEqualsValidation(info.description, value, targetValue)
      [] info.type = "GreaterThanOrEqualsTo" ->
            GreaterThanOrEqualsValidation(info.description, value, targetValue)

\* validateInputBoxComponent(component, validations): the updateProperty calls it
\* makes and the value it returns
RECURSIVE validateInputBoxComponent(_)
validateInputBoxStep(result, rest) ==
    IF ~ result.valid
    THEN [calls |-> << <<"validationErrorMessage", result.message>> >>, returned |-> FALSE]
    ELSE validateInputBoxComponent(rest)
validateInputBoxComponent(validations) ==
    IF validations = <<>> THEN [calls |-> <<>>, returned |-> TRUE]
    ELSE validateInputBoxStep(validate(Head(validations)), Tail(validations))

----------------------------------------------------------------------------
(* The test suite of the validations (test/ui/validation/validations.test). *)

\* the four validations of 'createValidation and validate input Box'
testValidations ==
    { [type |-> "IsInteger", description |-> <<"field was not an integer", Undefined, Undefined>>,
       regex |-> {}],
      [type |-> "Regex",
       description |-> <<"field must contain only alphabetic characters", Undefined, Undefined>>,
       regex |-> LowerCaseChars],
      [type |-> "LessThanOrEqualsTo",
       description |-> <<"field value must be <= field2's value", Undefined, Undefined>>,
       regex |-> {}],
      [type |-> "GreaterThanOrEqualsTo",
       description |-> <<"field value must be >= field1's value", Undefined, Undefined>>,
       regex |-> {}] }

\* the value getter and the variable value getter of that suite: async () => undefined
MutantTestGetter == Str(<<"a", "b">>)
testGetter == Undefined

\* the rows of suite('IntegerValidation')
IntegerValidationTests ==
    {
      [value |-> Str(<<"3", "4", "2", "5", "2", "0", "5", "9", "6", "7", "8", "1">>), expected |-> TRUE],
      [value |-> Num(<<3, 4, 2, 5, 2, 0, 5, 9, 6, 7, 8, 1>>, <<>>), expected |-> TRUE],
      [value |-> Str(<<"3", ".", "1", "4">>), expected |-> FALSE],
      [value |-> Num(<<3>>, <<1, 4>>), expected |-> FALSE],
      [value |-> Str(<<"3", ".", "1", "4", "e", "2">>), expected |-> TRUE],
      [value |-> Num(<<3, 1, 4>>, <<>>), expected |-> TRUE],
      [value |-> Undefined, expected |-> FALSE],
      [value |-> NaN, expected |-> FALSE] }

\* the regular expression and the rows of suite('RegexValidation')
testRegex == Digits09
RegexValidationTests ==
    {
      [value |-> Str(<<"3", "4", "2", "5", "2", "0", "5", "6", "1", "6", "1", "7", "9", "8", "1", "6">>), expected |-> TRUE],
      [value |-> Num(<<3, 4, 2, 5, 2, 0, 5, 6, 1, 6, 1, 7, 9, 8, 1, 6>>, <<>>), expected |-> TRUE],
      [value |-> Str(<<"3", ".", "1", "4">>), expected |-> FALSE],
      [value |-> Num(<<3>>, <<1, 4>>), expected |-> FALSE],
      [value |-> Str(<<"3", ".", "1", "4", "e", "2">>), expected |-> FALSE],
      [value |-> Num(<<3, 1, 4>>, <<>>), expected |-> TRUE],
      [value |-> Str(<<"a", "r", "b", "i", "t", "r", "a", "r", "y", "S", "t", "r", "i", "n", "g">>), expected |-> FALSE],
      [value |-> Undefined, expected |-> FALSE] }

\* the rows of suite('LessThanOrEqualsValidation')
MutantLessThanOrEqualsTests ==
    { [value |-> Num(<<3, 4, 2>>, <<>>),
       targetValue |-> Str(<<"4", "2">>), expected |-> TRUE] }
LessThanOrEqualsTests ==
    {
      [value |-> Str(<<"3", "4", "2">>),
       targetValue |-> Str(<<"4", "2">>), expected |-> TRUE],
      [value |-> Num(<<3, 4, 2>>, <<>>),
       targetValue |-> Str(<<"4", "2">>), expected |-> FALSE],
      [value |-> Str(<<"3", "4", "2">>),
       targetValue |-> Num(<<4, 2>>, <<>>), expected |-> FALSE],
      [value |-> Num(<<4, 2>>, <<>>),
       targetValue |-> Str(<<"3", "4", "2">>), expected |-> TRUE],
      [value |-> Str(<<"4", "2">>),
       targetValue |-> Num(<<3, 4, 2>>, <<>>), expected |-> TRUE],
      [value |-> Num(<<4, 2>>, <<>>),
       targetValue |-> Str(<<"4", "2">>), expected |-> TRUE],
      [value |-> Num(<<3, 4, 2>>, <<>>),
       targetValue |-> Num(<<4, 2>>, <<>>), expected |-> FALSE],
      [value |-> Str(<<"3", "4", "2", ".", "1", "5", "e", "-", "1">>),
       targetValue |-> Str(<<"4", "2", ".", "1", "5", "e", "-", "1">>), expected |-> TRUE],
      [value |-> Num(<<3, 4>>, <<2, 1, 5>>),
       targetValue |-> Str(<<"4", "2", ".", "1", "5", "e", "-", "1">>), expected |-> FALSE],
      [value |-> Str(<<"3", "4", "2", ".", "1", "5", "e", "-", "1">>),
       targetValue |-> Num(<<4>>, <<2, 1, 5>>), expected |-> FALSE],
      [value |-> Num(<<3, 4>>, <<2, 1, 5>>),
       targetValue |-> Num(<<4>>, <<2, 1, 5>>), expected |-> FALSE],
      [value |-> Str(<<"3", "4", "2", ".", "1", "5">>),
       targetValue |-> Str(<<"3", "4", "2", ".", "1", "5">>), expected |-> TRUE],
      [value |-> Num(<<3, 4, 2>>, <<1, 5>>),
       targetValue |-> Str(<<"3", "4", "2", ".", "1", "5">>), expected |-> TRUE],
      [value |-> Str(<<"3", "4", "2", ".", "1", "5">>),
       targetValue |-> Num(<<3, 4, 2>>, <<1, 5>>), expected |-> TRUE],
      [value |-> Num(<<3, 4, 2>>, <<1, 5>>),
       targetValue |-> Num(<<3, 4, 2>>, <<1, 5>>), expected |-> TRUE],
      [value |-> Undefined,
       targetValue |-> Str(<<"4", "2">>), expected |-> FALSE],
      [value |-> Undefined,
       targetValue |-> Num(<<4, 2>>, <<>>), expected |-> FALSE],
      [value |-> Str(<<"4", "2">>),
       targetValue |-> Undefined, expected |-> FALSE],
      [value |-> Num(<<4, 2>>, <<>>),
       targetValue |-> Undefined, expected |-> FALSE],
      [value |-> Undefined,
       targetValue |-> Undefined, expected |-> FALSE] }

\* the rows of suite('GreaterThanOrEqualsValidation')
MutantGreaterThanOrEqualsTests ==
    { [value |-> Str(<<"3", "4", "2">>),
       targetValue |-> Str(<<"4", "2">>), expected |-> TRUE] }
GreaterThanOrEqualsTests ==
    {
      [value |-> Str(<<"3", "4", "2">>),
       targetValue |-> Str(<<"4", "2">>), expected |-> FALSE],
      [value |-> Num(<<3, 4, 2>>, <<>>),
       targetValue |-> Str(<<"4", "2">>), expected |-> TRUE],
      [value |-> Str(<<"3", "4", "2">>),
       targetValue |-> Num(<<4, 2>>, <<>>), expected |-> TRUE],
      [value |-> Num(<<3, 4, 2>>, <<>>),
       targetValue |-> Num(<<4, 2>>, <<>>), expected |-> TRUE],
      [value |-> Str(<<"3", "4", "2", ".", "1", "5", "e", "-", "1">>),
       targetValue |-> Str(<<"4", "2", ".", "1", "5", "e", "-", "1">>), expected |-> FALSE],
      [value |-> Num(<<3, 4>>, <<2, 1, 5>>),
       targetValue |-> Str(<<"4", "2", ".", "1", "5", "e", "-", "1">>), expected |-> TRUE],
      [value |-> Str(<<"3", "4", "2", ".", "1", "5", "e", "-", "1">>),
       targetValue |-> Num(<<4>>, <<2, 1, 5>>), expected |-> TRUE],
      [value |-> Num(<<3, 4>>, <<2, 1, 5>>),
       targetValue |-> Num(<<4>>, <<2, 1, 5>>), expected |-> TRUE],
      [value |-> Str(<<"3", "4", "2", ".", "1", "5">>),
       targetValue |-> Str(<<"3", "4", "2", ".", "1", "5">>), expected |-> TRUE],
      [value |-> Num(<<3, 4, 2>>, <<1, 5>>),
       targetValue |-> Str(<<"3", "4", "2", ".", "1", "5">>), expected |-> TRUE],
      [value |-> Str(<<"3", "4", "2", ".", "1", "5">>),
       targetValue |-> Num(<<3, 4, 2>>, <<1, 5>>), expected |-> TRUE],
      [value |-> Num(<<3, 4, 2>>, <<1, 5>>),
       targetValue |-> Num(<<3, 4, 2>>, <<1, 5>>), expected |-> TRUE],
      [value |-> Undefined,
       targetValue |-> Str(<<"4", "2">>), expected |-> FALSE],
      [value |-> Undefined,
       targetValue |-> Num(<<4, 2>>, <<>>), expected |-> FALSE],
      [value |-> Str(<<"4", "2">>),
       targetValue |-> Undefined, expected |-> FALSE],
      [value |-> Num(<<4, 2>>, <<>>),
       targetValue |-> Undefined, expected |-> FALSE],
      [value |-> Undefined,
       targetValue |-> Undefined, expected |-> FALSE] }

\* the assertions of testValidation(validation, test, validationDescription);
\* exp is the row's expected verdict as a set
MutantTestValidation(result, exp, description) ==
    \A e \in exp : result.valid = e /\ result.message = {description}
testValidation(result, exp, description) ==
    \A e \in exp :
        /\ result.valid = e
        /\ IF result.valid THEN result.message = {} ELSE result.message = {description}

----------------------------------------------------------------------------
(* Operands chosen freely, besides the rows of the suites. *)

FreeAlphabet == {"3", "4", ".", "a"}
FreeStrings == UNION {[1..n -> FreeAlphabet] : n \in 0..MaxStrLen}
FreeValues ==
    {Undefined} \cup {Str(s) : s \in FreeStrings} \cup {StringToNumber(s) : s \in FreeStrings}

InputBoxValues == {Undefined, Str(<<"a", "b">>), Num(<<4>>, <<>>)}
InputBoxValidations ==
    {createValidation(info, v, tv) : info \in testValidations, v \in InputBoxValues,
                                     tv \in InputBoxValues}

\* the lists of at most n of these validations
RECURSIVE ValidationLists(_)
ValidationLists(n) ==
    IF n = 0 THEN {<<>>}
    ELSE ValidationLists(n - 1)
         \cup {Append(l, v) : l \in ValidationLists(n - 1), v \in InputBoxValidations}

----------------------------------------------------------------------------
(* State machine of the validation suites: every action is one test case.  *)

\* every test case builds its validation and its stub anew
Fresh == validation = NoValidation /\ inputBoxReturn = {}

\* await validation.validate() in a test on validation v
RunValidate(v, exp) ==
    /\ validation' = v
    /\ validationResult' = validate(v)
    /\ expected' = exp
    /\ inputBoxCalls' = <<>>
    /\ inputBoxReturn' = {}
    /\ validationList' = <<>>
    /\ UNCHANGED notValidation

\* await validateInputBoxComponent(inputBox, validations), on a fresh stub
InputBoxOutcome(validations, outcome) ==
    /\ validationList' = validations
    /\ inputBoxCalls' = outcome.calls
    /\ inputBoxReturn' = {outcome.returned}
    /\ validation' = NoValidation
    /\ validationResult' = NoResult
    /\ UNCHANGED notValidation

RunValidateInputBox(validations, exp) ==
    /\ InputBoxOutcome(validations, validateInputBoxComponent(validations))
    /\ expected' = exp

CreateValidationSuite ==
    /\ Fresh
    /\ \E testObj \in testValidations :
           RunValidateInputBox(<<createValidation(testObj, testGetter, testGetter)>>, {FALSE})

IntegerValidationSuite ==
    /\ Fresh
    /\ \E testObj \in IntegerValidationTests :
           RunValidate(IntegerValidation(<<"was not an integer", testObj.value, Undefined>>,
                                         testObj.value),
                       {testObj.expected})

RegexValidationSuite ==
    /\ Fresh
    /\ \E testOb \in RegexValidationTests :
           RunValidate(RegexValidation(<<"did not match the regex", testOb.value, Undefined>>,
                                       testRegex, testOb.value),
                       {testOb.expected})

LessThanOrEqualsValidationSuite ==
    /\ Fresh
    /\ \E testObj \in LessThanOrEqualsTests :
           RunValidate(LessThanOrEqualsValidation(
                           <<"did not test as <=", testObj.value, testObj.targetValue>>,
                           testObj.value, testObj.targetValue),
                       {testObj.expected})

GreaterThanOrEqualsValidationSuite ==
    /\ Fresh
    /\ \E testObj \in GreaterThanOrEqualsTests :
           RunValidate(GreaterThanOrEqualsValidation(
                           <<"did not test as >=", testObj.value, testObj.targetValue>>,
                           testObj.value, testObj.targetValue),
                       {testObj.expected})

\* validate() of a validation of any class on freely chosen operands
ValidateAny ==
    /\ Fresh
    /\ \E info \in testValidations, v \in FreeValues, tv \in FreeValues :
           /\ info.type \in {"IsInteger", "Regex"} => tv = Undefined
           /\ RunValidate(createValidation([info EXCEPT !.description = <<"invalid", v, tv>>],
                                           v, tv), {})

\* validateInputBoxComponent on a freely chosen list of validations
ValidateInputBoxAny ==
    /\ Fresh
    /\ \E validations \in ValidationLists(MaxValidations) :
           RunValidateInputBox(validations, {})

NextValidation ==
    \/ CreateValidationSuite
    \/ IntegerValidationSuite
    \/ RegexValidationSuite
    \/ LessThanOrEqualsValidationSuite
    \/ GreaterThanOrEqualsValidationSuite
    \/ ValidateAny
    \/ ValidateInputBoxAny


----------------------------------------------------------------------------
(* Claims about the validations. *)

Defined(v) == v.t # "undefined"

\* numeric order of two operands, a string operand being read as a number
NumericLeq(a, b) ==
    /\ ToNumber(a).t = "number"
    /\ ToNumber(b).t = "number"
    /\ CompareNum(ToNumber(a), ToNumber(b)) <= 0

\* lexicographic order of two strings
StringLeq(a, b) == CompareSeq(CodeUnits(a.s), CodeUnits(b.s)) <= 0

\* the comparison the claims describe: of strings when both operands are strings,
\* of numbers otherwise, and failing when an operand is undefined
ClaimedLeq(a, b) ==
    /\ Defined(a)
    /\ Defined(b)
    /\ IF IsString(a) /\ IsString(b) THEN StringLeq(a, b) ELSE NumericLeq(a, b)

FirstFailing(validations) ==
    validations[CHOOSE i \in 1..Len(validations) :
                    /\ ~ validate(validations[i]).valid
                    /\ \A j \in 1..(i - 1) : validate(validations[j]).valid]

----------------------------------------------------------------------------
(* models/project: the SQL project and its .sqlproj file.  A path is a       *)
(* sequence of names and separators; an XML element has a tag, its Include   *)
(* (or Project) attribute and its other attributes and child values.         *)

MaxOps == 2     \* calls made on one project

\* utils.convertSlashesForSqlProj: forward slashes become backslashes
convertSlashesForSqlProj(path) ==
    [i \in 1..Len(path) |-> IF path[i] = "/" THEN "\\" ELSE path[i]]

Element(tag, include, attrs) == [tag |-> tag, include |-> include, attrs |-> attrs]

RECURSIVE SelectTags(_, _)
SelectTags(doc, tags) ==
    IF doc = <<>> THEN <<>>
    ELSE (IF Head(doc).tag \in tags THEN <<Head(doc)>> ELSE <<>>) \o SelectTags(Tail(doc), tags)

HasTag(doc, tag) == \E i \in 1..Len(doc) : doc[i].tag = tag

AttrOf(el, key) == IF \E a \in el.attrs : a[1] = key
                   THEN (CHOOSE a \in el.attrs : a[1] = key)[2]
                   ELSE ""

\* conditions of Import and ArtifactReference elements
NetCoreCondition == "'$(NetCoreBuild)' == 'true'"
NotNetCoreCondition == "'$(NetCoreBuild)' != 'true'"
SqlDbPresentCondition == "'$(SQLDBExtensionsRefPath)' != ''"
SqlDbNotPresentCondition == "'$(SQLDBExtensionsRefPath)' == ''"
RoundTripSqlDbPresentCondition == "'$(NetCoreBuild)' != 'true' AND '$(SQLDBExtensionsRefPath)' != ''"
RoundTripSqlDbNotPresentCondition == "'$(NetCoreBuild)' != 'true' AND '$(SQLDBExtensionsRefPath)' == ''"
NetCoreTargets == "$(NETCoreTargetsPath)\\Microsoft.Data.Tools.Schema.SqlTasks.targets"
SqlDbTargets == "$(SQLDBExtensionsRefPath)\\Microsoft.Data.Tools.Schema.SqlTasks.targets"
MsBuildtargets == "$(MSBuildExtensionsPath)\\Microsoft\\VisualStudio\\v$(VisualStudioVersion)\\SSDT\\Microsoft.Data.Tools.Schema.SqlTasks.targets"

\* Project.getSystemDacpacUri / getSystemDacpacSsdtUri, in .sqlproj form
getSystemDacpacUri(db) ==
    <<"$(NETCoreTargetsPath)", "\\", "SystemDacpacs", "\\", "150", "\\", db, ".dacpac">>
getSystemDacpacSsdtUri(db) ==
    <<"$(DacPacRootPath)", "\\", "Extensions", "\\", "Microsoft", "\\", "SQLDB", "\\",
      "Extensions", "\\", "SqlServer", "\\", "150", "\\", "SqlSchemas", "\\", db, ".dacpac">>

\* the entries of the Project object
FileProjectEntry(type, relativePath, sqlObjectType) ==
    [type |-> type, relativePath |-> relativePath, sqlObjectType |-> sqlObjectType]

DatabaseReferenceEntry(kind, databaseName, path, suppress) ==
    [kind |-> kind, databaseName |-> databaseName, path |-> path,
     suppressMissingDependenciesErrors |-> suppress]

EmptyVariables == [n \in {} |-> ""]

\* the file entry read from a Folder, Build, PreDeploy, PostDeploy or None element
EntryOfElement(el) ==
    FileProjectEntry(IF el.tag = "Folder" THEN "Folder" ELSE "File", el.include,
                     AttrOf(el, "Type"))

IsSystemDacpac(path) ==
    \E db \in {"master", "msdb"} : path \in {getSystemDacpacUri(db), getSystemDacpacSsdtUri(db)}

\* the database reference read from an ArtifactReference or ProjectReference element:
\* a project reference is named by its Name, a dacpac reference by its file's name, and
\* a system dacpac reference is kept under its getSystemDacpacUri path
ReferenceOfElement(el) ==
    IF el.tag = "ProjectReference"
    THEN DatabaseReferenceEntry("project", AttrOf(el, "Name"), el.include,
                                AttrOf(el, "SuppressMissingDependenciesErrors") = "True")
    ELSE DatabaseReferenceEntry(IF IsSystemDacpac(el.include) THEN "system" ELSE "dacpac",
                                el.include[Len(el.include) - 1],
                                IF IsSystemDacpac(el.include)
                                THEN getSystemDacpacUri(el.include[Len(el.include) - 1])
                                ELSE el.include,
                                AttrOf(el, "SuppressMissingDependenciesErrors") = "True")

RECURSIVE VariablesOf(_)
VariablesOf(els) ==
    IF els = <<>> THEN EmptyVariables
    ELSE (Head(els).include[1] :> AttrOf(Head(els), "DefaultValue")) @@ VariablesOf(Tail(els))

MapSeq(els, Op(_)) == [i \in 1..Len(els) |-> Op(els[i])]

\* the references of a document: the SSDT twin of a system dacpac reference is skipped
ReferenceElements(doc) ==
    SelectSeq(SelectTags(doc, {"ArtifactReference", "ProjectReference"}),
              LAMBDA el : AttrOf(el, "Condition") # NotNetCoreCondition)

ImportProject(el) == AttrOf(el, "Project")

\* Project.readProjFile: the Project object of a document
readProjFile(doc) ==
    [files |-> MapSeq(SelectTags(doc, {"Build", "Folder"}), EntryOfElement),
     preDeployScripts |-> MapSeq(SelectTags(doc, {"PreDeploy"}), EntryOfElement),
     postDeployScripts |-> MapSeq(SelectTags(doc, {"PostDeploy"}), EntryOfElement),
     noneDeployScripts |-> MapSeq(SelectTags(doc, {"None"}), EntryOfElement),
     databaseReferences |-> MapSeq(ReferenceElements(doc), ReferenceOfElement),
     sqlCmdVariables |-> VariablesOf(SelectTags(doc, {"SqlCmdVariable"})),
     importedTargets |-> MapSeq(SelectTags(doc, {"Import"}), ImportProject)]

----------------------------------------------------------------------------
(* The project files the tests start from (test/baselines), as far as the   *)
(* tests tell what is in them.                                              *)

Import(condition, target) ==
    Element("Import", <<>>, {<<"Condition", condition>>, <<"Project", target>>})

SystemReferenceElements(db, suppress) ==
    << Element("ArtifactReference", getSystemDacpacUri(db),
               {<<"Condition", NetCoreCondition>>,
                <<"SuppressMissingDependenciesErrors", suppress>>,
                <<"DatabaseVariableLiteralValue", db>>}),
       Element("ArtifactReference", getSystemDacpacSsdtUri(db),
               {<<"Condition", NotNetCoreCondition>>,
                <<"SuppressMissingDependenciesErrors", suppress>>,
                <<"DatabaseVariableLiteralValue", db>>}) >>

SqlCmdVariableElement(name, defaultValue) ==
    Element("SqlCmdVariable", <<name>>, {<<"DefaultValue", defaultValue>>})

RoundTripImports ==
    << Import(NetCoreCondition, NetCoreTargets),
       Import(RoundTripSqlDbPresentCondition, SqlDbTargets),
       Import(RoundTripSqlDbNotPresentCondition, MsBuildtargets) >>

newProjectFileBaseline == RoundTripImports

openProjectFileBaseline ==
    RoundTripImports \o
    << Element("Folder", <<"Tables">>, {}),
       Element("Folder", <<"Views">>, {}),
       Element("Folder", <<"Views", "\\", "Maintenance">>, {}),
       Element("Folder", <<"Views", "\\", "User">>, {}),
       Element("Build", <<"Tables", "\\", "Users.sql">>, {}),
       Element("Build", <<"Tables", "\\", "Action History.sql">>, {}),
       Element("Build", <<"Views", "\\", "Maintenance", "\\", "Database Performance.sql">>, {}),
       Element("Build", <<"Views", "\\", "User", "\\", "Profile.sql">>, {}),
       Element("Build", <<"..", "\\", "Test", "\\", "Test.sql">>, {}),
       Element("Build", <<"MyExternalStreamingJob.sql">>, {<<"Type", "SqlExternalStreamingJob">>}),
       Element("PreDeploy", <<"Script.PreDeployment1.sql">>, {}),
       Element("None", <<"Script.PreDeployment2.sql">>, {}),
       Element("None", <<"Tables", "\\", "Script.PostDeployment1.sql">>, {}),
       Element("PostDeploy", <<"Script.PostDeployment1.sql">>, {}),
       SqlCmdVariableElement("ProdDatabaseName", "MyProdDatabase"),
       SqlCmdVariableElement("BackupDatabaseName", "MyBackupDatabase") >>
    \o SystemReferenceElements("master", "False")

SSDTProjectFileBaseline ==
    << Import(SqlDbPresentCondition, SqlDbTargets),
       Import(SqlDbNotPresentCondition, MsBuildtargets),
       Element("ArtifactReference", getSystemDacpacSsdtUri("master"),
               {<<"SuppressMissingDependenciesErrors", "False">>,
                <<"DatabaseVariableLiteralValue", "master">>}) >>

BaselineFile(name) ==
    CASE name = "newProjectFileBaseline" -> newProjectFileBaseline
      [] name = "openProjectFileBaseline" -> openProjectFileBaseline
      [] name = "SSDTProjectFileBaseline" -> SSDTProjectFileBaseline

BaselineNames == {"newProjectFileBaseline", "openProjectFileBaseline", "SSDTProjectFileBaseline"}

----------------------------------------------------------------------------
(* The JupyterServerInstallation object as its constructor leaves it, on a  *)
(* machine where nothing is installed and no call has been made.            *)

MaxInstallCalls == 2    \* startInstallProcess calls, each a caller of its own
MaxPackageCalls == 2    \* package calls (check, prompt, uninstall) made

DefaultPythonLocation == "azuredatastudio-python"

\* a startInstallProcess call that has not been made
NotCalled ==
    [pc |-> "idle", forceInstall |-> FALSE, installSettings |-> {}, running |-> {},
     met |-> {}, left |-> {}, shown |-> <<>>, returned |-> {}]

NoInstallation ==
    /\ platform = "linux"
    /\ runningPython = {}
    /\ installedPip = <<>>
    /\ notebookConfig = [pythonPath |-> {}, useExistingPython |-> FALSE]
    /\ pythonInstallationPath = DefaultPythonLocation
    /\ usingExistingPython = FALSE
    /\ pythonExecutable = {}
    /\ installInProgress = FALSE
    /\ installCompletion = 0
    /\ kernelSetupCache = {}
    /\ completions = <<>>
    /\ caller = [p \in 1..MaxInstallCalls |-> NotCalled]
    /\ operations = <<>>
    /\ packageCalls = <<>>

\* the browse tab before it is rendered
\* the new project dialog has not been opened
DialogNotOpened ==
    /\ dialogModel = [name |-> "", location |-> ""]
    /\ fileSystem = [proj |-> "none", denied |-> {}]
    /\ dialogMessage = {}
    /\ validateRuns = <<>>

TabNotRendered ==
    /\ dataSourceFilter = {}
    /\ treeNodes = <<>>
    /\ loaded = {}
    /\ outstanding = {}
    /\ filterRuns = <<>>

\* testUtils.createTestSqlProjFile(baseline) and Project.openProject(projFilePath);
\* no validation has been made
InitProject ==
    /\ baseline \in BaselineNames
    /\ projFile = BaselineFile(baseline)
    /\ backupFile = {}
    /\ scriptFiles = EmptyVariables
    /\ project = readProjFile(projFile)
    /\ before = [project |-> project, projFile |-> projFile]
    /\ calls = <<>>
    /\ messages = <<>>
    /\ pc = "idle"
    /\ validation = NoValidation
    /\ validationResult = NoResult
    /\ expected = {}
    /\ inputBoxCalls = <<>>
    /\ inputBoxReturn = {}
    /\ validationList = <<>>
    /\ channel = "userDataAutoSync"
    /\ channelCalls = <<>>
    /\ serviceCalls = <<>>
    /\ TabNotRendered
    /\ DialogNotOpened
    /\ NoInstallation

\* no validation has been made; the project is the one of newProjectFileBaseline
InitValidation ==
    /\ validation = NoValidation
    /\ validationResult = NoResult
    /\ expected = {}
    /\ inputBoxCalls = <<>>
    /\ inputBoxReturn = {}
    /\ validationList = <<>>
    /\ baseline = "newProjectFileBaseline"
    /\ projFile = newProjectFileBaseline
    /\ backupFile = {}
    /\ scriptFiles = EmptyVariables
    /\ project = readProjFile(projFile)
    /\ before = [project |-> project, projFile |-> projFile]
    /\ calls = <<>>
    /\ messages = <<>>
    /\ pc = "idle"
    /\ channel = "userDataAutoSync"
    /\ channelCalls = <<>>
    /\ serviceCalls = <<>>
    /\ TabNotRendered
    /\ DialogNotOpened
    /\ NoInstallation

----------------------------------------------------------------------------
(* The operations of Project.  P is the pair of the Project object and the  *)
(* document it serializes to the project file after every change.           *)

ExternalStreamingJob == "SqlExternalStreamingJob"
ItemTypes == {"script", "externalStreamingJob", "preDeployScript", "postDeployScript"}

Pair(proj, doc) == [project |-> proj, projFile |-> doc]

\* Project.addFolderItem(relativeFolderPath)
addFolderItem(P, relativeFolderPath) ==
    Pair([P.project EXCEPT !.files =
              Append(@, FileProjectEntry("Folder", convertSlashesForSqlProj(relativeFolderPath), ""))],
         Append(P.projFile, Element("Folder", convertSlashesForSqlProj(relativeFolderPath), {})))

\* the tag addScriptItem asks for, by item template
XmlTagOf(itemType) ==
    CASE itemType = "preDeployScript" -> "PreDeploy"
      [] itemType = "postDeployScript" -> "PostDeploy"
      [] OTHER -> "Build"

\* whether addFileToProjFile finds a script of that kind in the document already
MutantDeployScriptExists(doc, xmlTag) == FALSE
DeployScriptExists(doc, xmlTag) == xmlTag \in {"PreDeploy", "PostDeploy"} /\ HasTag(doc, xmlTag)

\* Project.addFileToProjFile: only one pre-deploy and one post-deploy script; all
\* additional ones are added with the None tag
addFileToProjFile(doc, path, xmlTag, attrs) ==
    Append(doc, Element(IF DeployScriptExists(doc, xmlTag) THEN "None" ELSE xmlTag, path, attrs))

\* the list of the Project object addScriptItem pushes the entry to
ListOf(proj, itemType) ==
    CASE itemType = "preDeployScript" ->
            IF proj.preDeployScripts = <<>> THEN "preDeployScripts" ELSE "noneDeployScripts"
      [] itemType = "postDeployScript" ->
            IF proj.postDeployScripts = <<>> THEN "postDeployScripts" ELSE "noneDeployScripts"
      [] OTHER -> "files"

SqlObjectTypeOf(itemType) == IF itemType = "externalStreamingJob" THEN ExternalStreamingJob ELSE ""

\* Project.addScriptItem(relativeFilePath, contents, itemType), but for the file written
MutantAddScriptItem(P, relativeFilePath, itemType) ==
    Pair([P.project EXCEPT ![ListOf(P.project, itemType)] =
              Append(@, FileProjectEntry("File", convertSlashesForSqlProj(relativeFilePath),
                                         SqlObjectTypeOf(itemType)))],
         addFileToProjFile(P.projFile, convertSlashesForSqlProj(relativeFilePath),
                           XmlTagOf(itemType), {}))
addScriptItem(P, relativeFilePath, itemType) ==
    Pair([P.project EXCEPT ![ListOf(P.project, itemType)] =
              Append(@, FileProjectEntry("File", convertSlashesForSqlProj(relativeFilePath),
                                         SqlObjectTypeOf(itemType)))],
         addFileToProjFile(P.projFile, convertSlashesForSqlProj(relativeFilePath),
                           XmlTagOf(itemType),
                           IF itemType = "externalStreamingJob"
                           THEN {<<"Type", ExternalStreamingJob>>} ELSE {}))

\* Project.addSqlCmdVariable(name, defaultValue): an entry of that name is removed from
\* the document first
RemoveVariable(doc, name) ==
    SelectSeq(doc, LAMBDA el : ~ (el.tag = "SqlCmdVariable" /\ el.include = <<name>>))

addSqlCmdVariable(P, name, defaultValue) ==
    Pair([P.project EXCEPT !.sqlCmdVariables = (name :> defaultValue) @@ @],
         Append(IF name \in DOMAIN P.project.sqlCmdVariables
                THEN RemoveVariable(P.projFile, name) ELSE P.projFile,
                SqlCmdVariableElement(name, defaultValue)))

\* Project.databaseReferenceExists
MutantDatabaseReferenceExists(proj, entry) == FALSE
databaseReferenceExists(proj, entry) ==
    \E i \in 1..Len(proj.databaseReferences) : proj.databaseReferences[i].path = entry.path

BoolAttr(b) == IF b THEN "True" ELSE "False"

addVariableIfNamed(P, name, value) == IF name = "" THEN P ELSE addSqlCmdVariable(P, name, value)

\* the SQLCMD variables a reference's settings name are added after the reference
addReferenceVariables(P, settings) ==
    addVariableIfNamed(addVariableIfNamed(P, settings.databaseVariable, settings.databaseName),
                       settings.serverVariable, settings.serverName)

pushReference(P, entry, elements) ==
    Pair([P.project EXCEPT !.databaseReferences = Append(@, entry)], P.projFile \o elements)

\* Project.addSystemDatabaseReference(settings)
SystemEntry(settings) ==
    DatabaseReferenceEntry("system", settings.systemDb, getSystemDacpacUri(settings.systemDb),
                           settings.suppressMissingDependenciesErrors)
addSystemDatabaseReference(P, settings) ==
    pushReference(P, SystemEntry(settings),
                  SystemReferenceElements(settings.systemDb,
                                          BoolAttr(settings.suppressMissingDependenciesErrors)))

VariableAttrs(settings) ==
    {<<"SuppressMissingDependenciesErrors", BoolAttr(settings.suppressMissingDependenciesErrors)>>}
    \cup (IF settings.databaseVariable = "" THEN {}
          ELSE {<<"DatabaseSqlCmdVariable", settings.databaseVariable>>})
    \cup (IF settings.serverVariable = "" THEN {}
          ELSE {<<"ServerSqlCmdVariable", settings.serverVariable>>})

\* Project.addDatabaseReference(settings), of a dacpac
DacpacEntry(settings) ==
    DatabaseReferenceEntry("dacpac",
                           settings.dacpacFileLocation[Len(settings.dacpacFileLocation) - 1],
                           convertSlashesForSqlProj(settings.dacpacFileLocation),
                           settings.suppressMissingDependenciesErrors)
addDatabaseReference(P, settings) ==
    addReferenceVariables(
        pushReference(P, DacpacEntry(settings),
                      <<Element("ArtifactReference",
                                convertSlashesForSqlProj(settings.dacpacFileLocation),
                                VariableAttrs(settings))>>),
        settings)

\* Project.addProjectReference(settings)
ProjectEntry(settings) ==
    DatabaseReferenceEntry("project", settings.projectName,
                           convertSlashesForSqlProj(settings.projectRelativePath),
                           settings.suppressMissingDependenciesErrors)
addProjectReference(P, settings) ==
    addReferenceVariables(
        pushReference(P, ProjectEntry(settings),
                      <<Element("ProjectReference",
                                convertSlashesForSqlProj(settings.projectRelativePath),
                                VariableAttrs(settings) \cup {<<"Name", settings.projectName>>})>>),
        settings)

\* Project.updateImportToSupportRoundTrip: the SSDT imports get the round trip
\* conditions, and the import of the .NET Core targets is added
RoundTripCondition(el) ==
    IF AttrOf(el, "Condition") = SqlDbPresentCondition /\ AttrOf(el, "Project") = SqlDbTargets
    THEN Import(RoundTripSqlDbPresentCondition, SqlDbTargets)
    ELSE IF AttrOf(el, "Condition") = SqlDbNotPresentCondition
            /\ AttrOf(el, "Project") = MsBuildtargets
    THEN Import(RoundTripSqlDbNotPresentCondition, MsBuildtargets)
    ELSE el

updateImportToSupportRoundTrip(P) ==
    Pair([P.project EXCEPT !.importedTargets = Append(@, NetCoreTargets)],
         Append(MapSeq(P.projFile, RoundTripCondition), Import(NetCoreCondition, NetCoreTargets)))

\* Project.updatePackageReferenceInProjFile and updateBeforeBuildTargetInProjFile
updatePackageReferenceInProjFile(P) ==
    Pair(P.project,
         Append(P.projFile,
                Element("PackageReference", <<"Microsoft.NETFramework.ReferenceAssemblies">>,
                        {<<"Condition", NetCoreCondition>>})))
updateBeforeBuildTargetInProjFile(P) ==
    Pair(P.project, Append(P.projFile, Element("Target", <<"BeforeBuild">>, {})))

\* an SSDT-only reference to a system database: no Condition, under $(DacPacRootPath)
IsSSDTOnlyReference(el, db) ==
    /\ el.tag = "ArtifactReference"
    /\ AttrOf(el, "Condition") = ""
    /\ el.include = getSystemDacpacSsdtUri(db)

containsSSDTOnlySystemDatabaseReference(doc, db) ==
    \E i \in 1..Len(doc) : IsSSDTOnlyReference(doc[i], db)

\* the reference is removed from the document and from the Project object, and added
\* again by addSystemDatabaseReference
replaceSystemDatabaseReference(P, db) ==
    IF ~ containsSSDTOnlySystemDatabaseReference(P.projFile, db) THEN P
    ELSE addSystemDatabaseReference(
             Pair([P.project EXCEPT !.databaseReferences =
                       SelectSeq(@, LAMBDA r : r.databaseName # db)],
                  SelectSeq(P.projFile, LAMBDA el : ~ IsSSDTOnlyReference(el, db))),
             [databaseName |-> db, systemDb |-> db,
              suppressMissingDependenciesErrors |->
                  \E i \in 1..Len(P.projFile) :
                      /\ IsSSDTOnlyReference(P.projFile[i], db)
                      /\ AttrOf(P.projFile[i], "SuppressMissingDependenciesErrors") = "True"])

\* Project.updateSystemDatabaseReferencesInProjFile
updateSystemDatabaseReferencesInProjFile(P) ==
    replaceSystemDatabaseReference(replaceSystemDatabaseReference(P, "master"), "msdb")

----------------------------------------------------------------------------
(* What the tests of project.test.ts call the operations with. *)

NoVariables == [databaseName |-> "", databaseVariable |-> "", serverName |-> "",
                serverVariable |-> ""]

\* addSystemDatabaseReference: master and msdb
SystemDatabaseSettings ==
    { [databaseName |-> "master", systemDb |-> "master",
       suppressMissingDependenciesErrors |-> FALSE],
      [databaseName |-> "msdb", systemDb |-> "msdb",
       suppressMissingDependenciesErrors |-> FALSE] }

\* addDatabaseReference: a dacpac of the same database, of a different database on the
\* same server, and of a different database on a different server
DacpacSettings ==
    { [dacpacFileLocation |-> <<"/", "test1", ".dacpac">>,
       suppressMissingDependenciesErrors |-> TRUE] @@ NoVariables,
      [dacpacFileLocation |-> <<"/", "test2", ".dacpac">>,
       databaseName |-> "test2DbName", databaseVariable |-> "test2Db",
       serverName |-> "", serverVariable |-> "",
       suppressMissingDependenciesErrors |-> FALSE],
      [dacpacFileLocation |-> <<"/", "test3", ".dacpac">>,
       databaseName |-> "test3DbName", databaseVariable |-> "test3Db",
       serverName |-> "otherServerName", serverVariable |-> "otherServer",
       suppressMissingDependenciesErrors |-> FALSE] }

\* addProjectReference: the three tests, with the number of SQLCMD variables each
\* expects afterwards
MutantProjectReferenceTests ==
    { [settings |-> [projectName |-> "project1",
                     projectRelativePath |-> <<"/", "..", "/", "project1", "/", "project1.sqlproj">>,
                     databaseName |-> "testdbName", databaseVariable |-> "testdb",
                     serverName |-> "otherServerName", serverVariable |-> "otherServer",
                     suppressMissingDependenciesErrors |-> FALSE],
       expected |-> 1] }
ProjectReferenceTests ==
    { [settings |-> [projectName |-> "project1",
                     projectRelativePath |-> <<"/", "..", "/", "project1", "/", "project1.sqlproj">>,
                     suppressMissingDependenciesErrors |-> FALSE] @@ NoVariables,
       expected |-> 0],
      [settings |-> [projectName |-> "project1",
                     projectRelativePath |-> <<"/", "..", "/", "project1", "/", "project1.sqlproj">>,
                     databaseName |-> "testdbName", databaseVariable |-> "testdb",
                     serverName |-> "", serverVariable |-> "",
                     suppressMissingDependenciesErrors |-> FALSE],
       expected |-> 1],
      [settings |-> [projectName |-> "project1",
                     projectRelativePath |-> <<"/", "..", "/", "project1", "/", "project1.sqlproj">>,
                     databaseName |-> "testdbName", databaseVariable |-> "testdb",
                     serverName |-> "otherServerName", serverVariable |-> "otherServer",
                     suppressMissingDependenciesErrors |-> FALSE],
       expected |-> 2] }

\* addSqlCmdVariable: a new variable, and one of the name of a variable of
\* openProjectFileBaseline
SqlCmdVariableTests ==
    << [name |-> "TestDatabaseName", defaultValue |-> "TestDb"],
       [name |-> "ProdDatabaseName", defaultValue |-> "NewProdName"] >>

\* what the test expects of project.sqlCmdVariables after the two calls
MutantSqlCmdVariablesTest(sqlCmdVariables) ==
    /\ Cardinality(DOMAIN sqlCmdVariables) = 4
    /\ sqlCmdVariables["TestDatabaseName"] = "TestDb"
    /\ sqlCmdVariables["ProdDatabaseName"] = "NewProdName"
SqlCmdVariablesTest(sqlCmdVariables) ==
    /\ Cardinality(DOMAIN sqlCmdVariables) = 3
    /\ sqlCmdVariables["TestDatabaseName"] = "TestDb"
    /\ sqlCmdVariables["ProdDatabaseName"] = "NewProdName"

\* testUpdateTargetsImportsRoundTrip: two imported targets before
\* updateProjectForRoundTrip; the backup file and three imported targets after
MutantTestUpdateTargetsImportsRoundTrip(targetsBefore, backupExists, targetsAfter) ==
    /\ targetsBefore = 2
    /\ backupExists
    /\ targetsAfter = 4
testUpdateTargetsImportsRoundTrip(targetsBefore, backupExists, targetsAfter) ==
    /\ targetsBefore = 2
    /\ backupExists
    /\ targetsAfter = 3

\* addFolderItem
FolderTests == { <<"Stored Procedures">>, <<"Pre-Post Deployment Scripts">> }

\* addScriptItem: path, contents, item template
ScriptTests ==
    { [path |-> <<"Stored Procedures", "/", "Fake Stored Proc.sql">>,
       contents |-> "SELECT 'This is not actually a stored procedure.'",
       itemType |-> "script"],
      [path |-> <<"Stored Procedures", "/", "Fake External Streaming Job.sql">>,
       contents |-> "EXEC sys.sp_create_streaming_job 'job', 'SELECT 7'",
       itemType |-> "externalStreamingJob"],
      [path |-> <<"Pre-Post Deployment Scripts", "/", "Script.PreDeployment1.sql">>,
       contents |-> " ", itemType |-> "preDeployScript"],
      [path |-> <<"Pre-Post Deployment Scripts", "/", "Script.PostDeployment1.sql">>,
       contents |-> " ", itemType |-> "postDeployScript"],
      [path |-> <<"Pre-Post Deployment Scripts", "/", "Script.PreDeployment2.sql">>,
       contents |-> " ", itemType |-> "preDeployScript"],
      [path |-> <<"Pre-Post Deployment Scripts", "/", "Script.PostDeployment2.sql">>,
       contents |-> " ", itemType |-> "postDeployScript"] }

\* a script added a second time, with other contents
ScriptRewrite ==
    [path |-> <<"Stored Procedures", "/", "Fake Stored Proc.sql">>,
     contents |-> "SELECT 1", itemType |-> "script"]

----------------------------------------------------------------------------
(* State machine of the project: every action is one call of a test on the  *)
(* project, updateProjectForRoundTrip being taken step by step.             *)

databaseReferenceAlreadyExists == "A reference to this database already exists in this project."

Idle == pc = "idle" /\ Len(calls) < MaxOps

Call(op, arg, thrown) == [op |-> op, arg |-> arg, thrown |-> thrown]

\* the call returned, having left the Project object and the project file as in P
Commit(op, arg, thrown, P) ==
    /\ project' = P.project
    /\ projFile' = P.projFile
    /\ before' = Pair(project, projFile)
    /\ calls' = Append(calls, Call(op, arg, thrown))
    /\ UNCHANGED <<pc, baseline>>
    /\ UNCHANGED notProject

AddFolderItem ==
    /\ Idle
    /\ \E folder \in FolderTests :
           Commit("addFolderItem", folder, "", addFolderItem(Pair(project, projFile), folder))
    /\ UNCHANGED <<backupFile, scriptFiles, messages>>

AddScriptItem ==
    /\ Idle
    /\ \E test \in ScriptTests \cup {ScriptRewrite} :
           /\ scriptFiles' = (test.path :> test.contents) @@ scriptFiles
           /\ messages' = IF DeployScriptExists(projFile, XmlTagOf(test.itemType))
                          THEN Append(messages, <<"deployScriptExists", XmlTagOf(test.itemType)>>)
                          ELSE messages
           /\ Commit("addScriptItem", test, "",
                     addScriptItem(Pair(project, projFile), test.path, test.itemType))
    /\ UNCHANGED backupFile

\* a reference is added unless databaseReferenceExists; then the call throws
AddReference(op, arg, entry, P) ==
    IF databaseReferenceExists(project, entry)
    THEN Commit(op, arg, databaseReferenceAlreadyExists, Pair(project, projFile))
    ELSE Commit(op, arg, "", P)

AddSystemDatabaseReference ==
    /\ Idle
    /\ \E settings \in SystemDatabaseSettings :
           AddReference("addSystemDatabaseReference", settings, SystemEntry(settings),
                        addSystemDatabaseReference(Pair(project, projFile), settings))
    /\ UNCHANGED <<backupFile, scriptFiles, messages>>

AddDatabaseReference ==
    /\ Idle
    /\ \E settings \in DacpacSettings :
           AddReference("addDatabaseReference", settings, DacpacEntry(settings),
                        addDatabaseReference(Pair(project, projFile), settings))
    /\ UNCHANGED <<backupFile, scriptFiles, messages>>

AddProjectReference ==
    /\ Idle
    /\ \E test \in ProjectReferenceTests :
           AddReference("addProjectReference", test, ProjectEntry(test.settings),
                        addProjectReference(Pair(project, projFile), test.settings))
    /\ UNCHANGED <<backupFile, scriptFiles, messages>>

AddSqlCmdVariable ==
    /\ Idle
    /\ \E i \in DOMAIN SqlCmdVariableTests :
           Commit("addSqlCmdVariable", SqlCmdVariableTests[i], "",
                  addSqlCmdVariable(Pair(project, projFile), SqlCmdVariableTests[i].name,
                                    SqlCmdVariableTests[i].defaultValue))
    /\ UNCHANGED <<backupFile, scriptFiles, messages>>

UpdateSystemDatabaseReferencesInProjFile ==
    /\ Idle
    /\ Commit("updateSystemDatabaseReferencesInProjFile", "", "",
              updateSystemDatabaseReferencesInProjFile(Pair(project, projFile)))
    /\ UNCHANGED <<backupFile, scriptFiles, messages>>

\* Project.openProject(projFilePath): a new Project object, read from the file
OpenProject ==
    /\ pc = "idle"
    /\ project' = readProjFile(projFile)
    /\ UNCHANGED <<projFile, backupFile, scriptFiles, before, calls, messages, pc, baseline>>
    /\ UNCHANGED notProject

\* Project.updateProjectForRoundTrip, first step: fs.copyFile to <project file>_backup
UpdateProjectForRoundTrip ==
    /\ Idle
    /\ backupFile' = {projFile}
    /\ pc' = "updateImportToSupportRoundTrip"
    /\ before' = Pair(project, projFile)
    /\ calls' = Append(calls, Call("updateProjectForRoundTrip", "", ""))
    /\ UNCHANGED <<project, projFile, scriptFiles, messages, baseline>>
    /\ UNCHANGED notProject

\* a later step of updateProjectForRoundTrip
RoundTripStep(at, next, P) ==
    /\ pc = at
    /\ pc' = next
    /\ project' = P.project
    /\ projFile' = P.projFile
    /\ UNCHANGED <<backupFile, scriptFiles, before, calls, messages, baseline>>
    /\ UNCHANGED notProject

UpdateImportToSupportRoundTrip ==
    RoundTripStep("updateImportToSupportRoundTrip", "updatePackageReferenceInProjFile",
                  updateImportToSupportRoundTrip(Pair(project, projFile)))

UpdatePackageReferenceInProjFile ==
    RoundTripStep("updatePackageReferenceInProjFile", "updateBeforeBuildTargetInProjFile",
                  updatePackageReferenceInProjFile(Pair(project, projFile)))

UpdateBeforeBuildTargetInProjFile ==
    RoundTripStep("updateBeforeBuildTargetInProjFile", "updateSystemDatabaseReferencesInProjFile",
                  updateBeforeBuildTargetInProjFile(Pair(project, projFile)))

RoundTripUpdateSystemDatabaseReferences ==
    RoundTripStep("updateSystemDatabaseReferencesInProjFile", "idle",
                  updateSystemDatabaseReferencesInProjFile(Pair(project, projFile)))

NextProject ==
    \/ AddFolderItem
    \/ AddScriptItem
    \/ AddSystemDatabaseReference
    \/ AddDatabaseReference
    \/ AddProjectReference
    \/ AddSqlCmdVariable
    \/ UpdateSystemDatabaseReferencesInProjFile
    \/ OpenProject
    \/ UpdateProjectForRoundTrip
    \/ UpdateImportToSupportRoundTrip
    \/ UpdatePackageReferenceInProjFile
    \/ UpdateBeforeBuildTargetInProjFile
    \/ RoundTripUpdateSystemDatabaseReferences

\* the project is left alone while the validation suites run, and the other way round
SpecValidation == InitValidation /\ [][NextValidation]_vars

SpecProject == InitProject /\ [][NextProject]_vars

----------------------------------------------------------------------------
(* Claims about the project, checked under SpecProject. *)

LastCall == calls[Len(calls)]

\* the Project object Project.openProject reads from the project file as it is
Reopened == readProjFile(projFile)

Returned(ops) == calls # <<>> /\ pc = "idle" /\ LastCall.op \in ops

ReferencesTo(refs, path) == {i \in 1..Len(refs) : refs[i].path = path}

\* the path of the reference a call asks for
PathOfCall(c) ==
    IF c.op = "addSystemDatabaseReference" THEN getSystemDacpacUri(c.arg.systemDb)
    ELSE convertSlashesForSqlProj(c.arg.dacpacFileLocation)

\* C5: project.databaseReferences never holds two references of one path, and a call
\* of addSystemDatabaseReference or addDatabaseReference for a reference that is in
\* project.databaseReferences throws databaseReferenceAlreadyExists and leaves
\* project.databaseReferences (and the project file) as they were; any other such call
\* does not throw.
C5_NoDuplicateReferences ==
    /\ \A i \in 1..Len(project.databaseReferences) :
           ReferencesTo(project.databaseReferences, project.databaseReferences[i].path) = {i}
    /\ Returned({"addSystemDatabaseReference", "addDatabaseReference"}) =>
           IF ReferencesTo(before.project.databaseReferences, PathOfCall(LastCall)) # {}
           THEN /\ LastCall.thrown = databaseReferenceAlreadyExists
                /\ project.databaseReferences = before.project.databaseReferences
                /\ projFile = before.projFile
           ELSE LastCall.thrown = ""

\* test1.dacpac was added, and adding it again threw
C5_Witness ==
    /\ Len(calls) = 2
    /\ calls[1].op = "addDatabaseReference"
    /\ calls[1].thrown = ""
    /\ LastCall.op = "addDatabaseReference"
    /\ LastCall.arg = calls[1].arg
    /\ LastCall.thrown = databaseReferenceAlreadyExists
    /\ Len(project.databaseReferences) = Len(readProjFile(BaselineFile(baseline)).databaseReferences) + 1

VariableElementsBut(doc, name) ==
    SelectSeq(SelectTags(doc, {"SqlCmdVariable"}), LAMBDA el : el.include # <<name>>)

VariableElementsOf(doc, name) ==
    SelectSeq(SelectTags(doc, {"SqlCmdVariable"}), LAMBDA el : el.include = <<name>>)

SqlCmdVariablesTestCalls ==
    [i \in DOMAIN SqlCmdVariableTests |-> Call("addSqlCmdVariable", SqlCmdVariableTests[i], "")]

IsDeployAdd(c) == c.op = "addScriptItem" /\ XmlTagOf(c.arg.itemType) \in {"PreDeploy", "PostDeploy"}

\* the calls of addScriptItem with the pre-deploy or post-deploy template, each with
\* whether one of its kind came before it
DeployAdds ==
    LET adds == SelectSeq(calls, IsDeployAdd)
    IN  [i \in 1..Len(adds) |->
            [tag |-> XmlTagOf(adds[i].arg.itemType),
             entry |-> FileProjectEntry("File", convertSlashesForSqlProj(adds[i].arg.path), ""),
             later |-> \E j \in 1..(i - 1) : adds[j].arg.itemType = adds[i].arg.itemType]]

FirstEntries(adds, tag) ==
    MapSeq(SelectSeq(adds, LAMBDA a : a.tag = tag /\ ~ a.later), LAMBDA a : a.entry)

NoDeployScripts(proj) == proj.preDeployScripts = <<>> /\ proj.postDeployScripts = <<>>

\* C7: from a project without pre-deploy and post-deploy scripts, the project as
\* re-opened has no pre-deploy (post-deploy) script other than the first one added;
\* every later addScriptItem of that kind has shown deployScriptExists of the kind,
\* and its script is an entry of noneDeployScripts.
C7_OneDeployScript ==
    NoDeployScripts(readProjFile(BaselineFile(baseline))) =>
        /\ Len(Reopened.preDeployScripts) <= 1
        /\ Len(Reopened.postDeployScripts) <= 1
        /\ Reopened.preDeployScripts = FirstEntries(DeployAdds, "PreDeploy")
        /\ Reopened.postDeployScripts = FirstEntries(DeployAdds, "PostDeploy")
        /\ Reopened.noneDeployScripts =
               MapSeq(SelectSeq(DeployAdds, LAMBDA a : a.later), LAMBDA a : a.entry)
        /\ messages =
               MapSeq(SelectSeq(DeployAdds, LAMBDA a : a.later),
                      LAMBDA a : <<"deployScriptExists", a.tag>>)

\* Script.PreDeployment2.sql was added after Script.PreDeployment1.sql
C7_Witness ==
    /\ baseline = "newProjectFileBaseline"
    /\ Len(calls) = 2
    /\ calls[1].op = "addScriptItem"
    /\ calls[1].arg.itemType = "preDeployScript"
    /\ LastCall.op = "addScriptItem"
    /\ LastCall.arg.itemType = "preDeployScript"
    /\ LastCall.arg.path # calls[1].arg.path
    /\ messages = << <<"deployScriptExists", "PreDeploy">> >>
    /\ Len(Reopened.preDeployScripts) = 1
    /\ Reopened.noneDeployScripts =
           <<FileProjectEntry("File", convertSlashesForSqlProj(LastCall.arg.path), "")>>

Contains(entries, entry) == \E i \in 1..Len(entries) : entries[i] = entry

\* the contents of the last addScriptItem of a path
LastContents(path) ==
    calls[CHOOSE i \in 1..Len(calls) :
              /\ calls[i].op = "addScriptItem"
              /\ calls[i].arg.path = path
              /\ \A j \in (i + 1)..Len(calls) :
                     ~ (calls[j].op = "addScriptItem" /\ calls[j].arg.path = path)].arg.contents

FoldersPersisted ==
    \A i \in 1..Len(calls) :
        calls[i].op = "addFolderItem" =>
            Contains(Reopened.files,
                     FileProjectEntry("Folder", convertSlashesForSqlProj(calls[i].arg), ""))

ContentsPersisted ==
    \A i \in 1..Len(calls) :
        calls[i].op = "addScriptItem" =>
            /\ calls[i].arg.path \in DOMAIN scriptFiles
            /\ scriptFiles[calls[i].arg.path] = LastContents(calls[i].arg.path)

ScriptEntry(c) ==
    FileProjectEntry("File", convertSlashesForSqlProj(c.arg.path), SqlObjectTypeOf(c.arg.itemType))

\* C8 as claimed: the files list of the re-opened project contains every added folder
\* and every added script, whatever its item template
C8_Original ==
    /\ FoldersPersisted
    /\ ContentsPersisted
    /\ \A i \in 1..Len(calls) :
           calls[i].op = "addScriptItem" => Contains(Reopened.files, ScriptEntry(calls[i]))

\* C8: the files list of the re-opened project contains every added folder (Folder)
\* and every script added with a template other than the pre-deploy and post-deploy
\* ones (File), under its sqlproj-style path and with the sqlObjectType of its
\* template; a script added with the pre-deploy or post-deploy template is an entry of
\* preDeployScripts, postDeployScripts or noneDeployScripts, and not of files; the
\* script file holds the contents passed to the last addScriptItem of its path.
C8_Persisted ==
    /\ FoldersPersisted
    /\ ContentsPersisted
    /\ \A i \in 1..Len(calls) :
           calls[i].op = "addScriptItem" =>
               IF IsDeployAdd(calls[i])
               THEN /\ Contains(Reopened.preDeployScripts \o Reopened.postDeployScripts
                                    \o Reopened.noneDeployScripts, ScriptEntry(calls[i]))
                    /\ ~ Contains(Reopened.files, ScriptEntry(calls[i]))
               ELSE Contains(Reopened.files, ScriptEntry(calls[i]))

\* a folder and the external streaming job of the test were added
C8_Witness ==
    /\ Len(calls) = 2
    /\ calls[1].op = "addFolderItem"
    /\ calls[1].arg = <<"Stored Procedures">>
    /\ LastCall.op = "addScriptItem"
    /\ LastCall.arg.itemType = "externalStreamingJob"
    /\ Contains(Reopened.files, FileProjectEntry("Folder", <<"Stored Procedures">>, ""))
    /\ Contains(Reopened.files,
                FileProjectEntry("File",
                                 <<"Stored Procedures", "\\", "Fake External Streaming Job.sql">>,
                                 ExternalStreamingJob))
    /\ scriptFiles[LastCall.arg.path] = "EXEC sys.sp_create_streaming_job 'job', 'SELECT 7'"

SettingsOfCall(c) == IF c.op = "addProjectReference" THEN c.arg.settings ELSE c.arg

NamedVariables(settings) == {settings.databaseVariable, settings.serverVariable} \ {""}

RoundTripCalled == \E i \in 1..Len(calls) : calls[i].op = "updateProjectForRoundTrip"

----------------------------------------------------------------------------
(* UserDataAutoSyncService of the workbench: the proxy of the service of   *)
(* the shared process.  channel.call(command, arg) returns a new promise;  *)
(* the argument is a set, {} when the call passes none.                    *)

MaxSyncCalls == 2   \* calls made on the service

\* sharedProcessService.getChannel('userDataAutoSync')
getChannel == "userDataAutoSync"

\* IChannel.call(command, arg): the call is recorded and a new promise is returned
ChannelCall(command, arg) ==
    [command |-> command, arg |-> arg, promise |-> Len(channelCalls) + 1]

\* the channel calls of triggerSync, turnOn and turnOff
triggerSync(sources, hasToLimitSync, disableCache) ==
    ChannelCall("triggerSync", {<<sources, hasToLimitSync, disableCache>>})

turnOn == ChannelCall("turnOn", {})

MutantTurnOff(everywhere) == ChannelCall("turnOff", {})
turnOff(everywhere) == ChannelCall("turnOff", {<<everywhere>>})

\* the sources a caller may name
SyncSources == { <<>>, <<"settings">>, <<"settings", "keybindings">> }

ServiceCall(method, args, call) ==
    /\ Len(serviceCalls) < MaxSyncCalls
    /\ channelCalls' = Append(channelCalls, call)
    /\ serviceCalls' = Append(serviceCalls,
                              [method |-> method, args |-> args, returned |-> call.promise])
    /\ UNCHANGED channel
    /\ UNCHANGED notSync

TriggerSync ==
    \E sources \in SyncSources, hasToLimitSync \in BOOLEAN, disableCache \in BOOLEAN :
        ServiceCall("triggerSync", <<sources, hasToLimitSync, disableCache>>,
                    triggerSync(sources, hasToLimitSync, disableCache))

TurnOn == ServiceCall("turnOn", <<>>, turnOn)

TurnOff == \E everywhere \in BOOLEAN : ServiceCall("turnOff", <<everywhere>>, turnOff(everywhere))

\* the service as constructed; no validation has been made, and the project is the
\* one of newProjectFileBaseline
InitSync ==
    /\ channel = getChannel
    /\ channelCalls = <<>>
    /\ serviceCalls = <<>>
    /\ TabNotRendered
    /\ DialogNotOpened
    /\ validation = NoValidation
    /\ validationResult = NoResult
    /\ expected = {}
    /\ inputBoxCalls = <<>>
    /\ inputBoxReturn = {}
    /\ validationList = <<>>
    /\ baseline = "newProjectFileBaseline"
    /\ projFile = newProjectFileBaseline
    /\ backupFile = {}
    /\ scriptFiles = EmptyVariables
    /\ project = readProjFile(projFile)
    /\ before = [project |-> project, projFile |-> projFile]
    /\ calls = <<>>
    /\ messages = <<>>
    /\ pc = "idle"
    /\ NoInstallation

NextSync == TriggerSync \/ TurnOn \/ TurnOff

SpecSync == InitSync /\ [][NextSync]_vars

\* the arguments a channel call passes, () when it passes none
ArgumentsOf(call) == IF call.arg = {} THEN <<>> ELSE CHOOSE a \in call.arg : TRUE

\* C11: every call of triggerSync, turnOn and turnOff has made exactly one call on the
\* channel 'userDataAutoSync', of the same command name and with the same arguments in
\* the same order, and has returned the promise of that call; the channel of the
\* service is the one it was constructed with.
C11_PureProxy ==
    /\ channel = "userDataAutoSync"
    /\ Len(channelCalls) = Len(serviceCalls)
    /\ \A i \in 1..Len(serviceCalls) :
           /\ channelCalls[i].command = serviceCalls[i].method
           /\ ArgumentsOf(channelCalls[i]) = serviceCalls[i].args
           /\ serviceCalls[i].returned = channelCalls[i].promise
           /\ \A j \in 1..Len(channelCalls) :
                  channelCalls[j].promise = serviceCalls[i].returned => j = i

\* turnOff(true) after triggerSync(['settings'], true, false)
C11_Witness ==
    /\ Len(serviceCalls) = 2
    /\ serviceCalls[1].method = "triggerSync"
    /\ channelCalls[1].arg = {<< <<"settings">>, TRUE, FALSE >>}
    /\ serviceCalls[2].method = "turnOff"
    /\ channelCalls[2] = [command |-> "turnOff", arg |-> {<<TRUE>>}, promise |-> 2]

----------------------------------------------------------------------------
(* JupyterServerInstallation (extensions/notebook/src/jupyter).  Python     *)
(* packages are records of a name and a version, a version the tuple of its *)
(* numbers: 1.0.0 is <<1, 0, 0>>, and <<>> stands for no version.           *)

winPlatform == "win32"
pythonBundleVersion == "0.0.1"
python3DisplayName == "Python 3"
powershellDisplayName == "PowerShell"
pysparkDisplayName == "PySpark"
sparkScalaDisplayName == "Spark | Scala"
sparkRDisplayName == "Spark | R"
allKernelsName == "<<ALL>>"

msgPythonDownloadComplete == "Python download is complete"
msgPythonDownloadError == "Error while downloading python setup"
msgPythonDownloadPending == "Downloading python package"
msgPythonUnpackPending == "Unpacking python package"
msgPythonDirectoryError == "Error while creating python installation directory"
msgPythonUnpackError == "Error while unpacking python bundle"
msgInstallPkgProgress == "Notebook dependencies installation is in progress"
msgInstallPkgStart == "Installing Notebook dependencies, see Tasks view for more information"
msgInstallPkgFinish == "Notebook dependencies installation is complete"
msgPythonRunningError == "Cannot overwrite an existing Python installation while python is running. Please close any active notebooks before proceeding."
msgWaitingForInstall == "Another Python installation is currently in progress. Waiting for it to complete."
msgDependenciesInstallationFailed == "Installing Notebook dependencies failed with error: {0}"
msgDownloadPython == "Downloading local python for platform: {0} to {1}"

Pkg(name, version) == [name |-> name, version |-> version]

jupyterPkg == Pkg("jupyter", <<1, 0, 0>>)
powershellPkg == Pkg("powershell-kernel", <<0, 1, 4>>)
sparkPackages ==
    <<jupyterPkg, Pkg("sparkmagic", <<0, 12, 9>>), Pkg("pandas", <<0, 24, 2>>),
      Pkg("prose-codeaccelerator", <<1, 3, 0>>)>>
allPackages == Append(sparkPackages, powershellPkg)

Kernels ==
    {python3DisplayName, powershellDisplayName, pysparkDisplayName,
     sparkScalaDisplayName, sparkRDisplayName, allKernelsName}

\* JupyterServerInstallation.getRequiredPackagesForKernel(kernelName)
getRequiredPackagesForKernel(kernelName) ==
    CASE kernelName = python3DisplayName -> <<jupyterPkg>>
      [] kernelName = powershellDisplayName -> <<jupyterPkg, powershellPkg>>
      [] kernelName \in {pysparkDisplayName, sparkScalaDisplayName, sparkRDisplayName} ->
            sparkPackages
      [] kernelName = allKernelsName -> allPackages
      [] OTHER -> <<>>

\* JupyterServerInstallation._requiredPackagesSet
requiredPackagesSet == { allPackages[i].name : i \in 1..Len(allPackages) }

\* utils.comparePackageVersions(first, second): negative, zero or positive as the
\* first version is lower than, equal to or higher than the second, number by number
RECURSIVE comparePackageVersions(_, _)
comparePackageVersions(first, second) ==
    IF first = <<>> /\ second = <<>> THEN 0
    ELSE LET a == IF first = <<>> THEN 0 ELSE Head(first)
             b == IF second = <<>> THEN 0 ELSE Head(second)
         IN  IF a < b THEN -1
             ELSE IF a > b THEN 1
             ELSE comparePackageVersions(IF first = <<>> THEN <<>> ELSE Tail(first),
                                         IF second = <<>> THEN <<>> ELSE Tail(second))

\* JupyterServerInstallation.getPythonExePath(pythonInstallPath, useExistingInstall)
getPythonExePath(pythonInstallPath, useExistingInstall) ==
    <<pythonInstallPath,
      IF useExistingInstall THEN "" ELSE pythonBundleVersion,
      IF platform = winPlatform THEN "python.exe" ELSE "bin/python3">>

\* JupyterServerInstallation.getPythonInstallPath()
getPythonInstallPath(config) ==
    IF config.pythonPath = {} THEN DefaultPythonLocation
    ELSE CHOOSE userPath \in config.pythonPath : TRUE

\* JupyterServerInstallation.isPythonRunning(pythonExePath); commandFails is whether
\* the process query throws
isPythonRunning(pythonExePath, commandFails) ==
    IF platform = winPlatform
    THEN IF commandFails THEN FALSE
         ELSE \E from \in runningPython : getPythonExePath(from, FALSE) = pythonExePath
    ELSE FALSE

\* JupyterServerInstallation.getInstalledPipPackages(): name -> version of what pip
\* lists, nothing when the list cannot be retrieved
getInstalledPipPackages(listFails) ==
    IF listFails THEN [n \in DOMAIN installedPip |-> <<>>] ELSE installedPip

\* the version a package list gives a package (<<>> = the list has no such package)
VersionIn(installed, name) ==
    IF name \in DOMAIN installed THEN installed[name] ELSE <<>>

\* the test of one package in upgradePythonPackages and areRequiredPackagesInstalled
NeedsInstall(installed, pkg) ==
    \/ VersionIn(installed, pkg.name) = <<>>
    \/ comparePackageVersions(VersionIn(installed, pkg.name), pkg.version) < 0

\* the packages JupyterServerInstallation.upgradePythonPackages(forceInstall, packages)
\* hands to installPipPackages
MutantUpgradePythonPackages(forceInstall, packages, installed) == packages
upgradePythonPackages(forceInstall, packages, installed) ==
    IF forceInstall THEN packages
    ELSE SelectSeq(packages, LAMBDA pkg : NeedsInstall(installed, pkg))

\* the arguments of the pip command of
\* JupyterServerInstallation.installPipPackages(packages, useMinVersion)
installPipPackages(packages, useMinVersion) ==
    [i \in 1..Len(packages) |->
        [name |-> packages[i].name,
         versionSpecifier |-> IF useMinVersion THEN ">=" ELSE "==",
         version |-> packages[i].version]]

\* what pip has installed once the command with these arguments has run
PipInstalled(installed, arguments) ==
    [n \in DOMAIN installed |->
        IF \E i \in 1..Len(arguments) :
              /\ arguments[i].name = n
              /\ \/ arguments[i].versionSpecifier = "=="
                 \/ comparePackageVersions(installed[n], arguments[i].version) < 0
        THEN arguments[CHOOSE i \in 1..Len(arguments) : arguments[i].name = n].version
        ELSE installed[n]]

----------------------------------------------------------------------------
(* startInstallProcess.  Every call is a caller of its own; a call stops at *)
(* each await, and what runs between two awaits is one step.                *)

\* the second argument of startInstallProcess, as a set ({} = not given)
InstallSettingsGiven ==
    {{}} \cup { {[installPath |-> "custom-python", existingPython |-> existing,
                  packages |-> getRequiredPackagesForKernel(python3DisplayName)]} :
                existing \in BOOLEAN }

\* startInstallProcess, the default of installSettings
installSettingsOf(given) ==
    IF given = {}
    THEN [installPath |-> pythonInstallationPath,
          existingPython |-> usingExistingPython,
          packages |-> getRequiredPackagesForKernel(python3DisplayName)]
    ELSE CHOOSE settings \in given : TRUE

\* startInstallProcess: whether the running-Python check is made
MutantChecksPythonRunning(installSettings) == TRUE
checksPythonRunning(installSettings) == ~ installSettings.existingPython

\* startInstallProcess: whether the call waits for the installation in progress
MutantWaitsForInstall == FALSE
waitsForInstall == installInProgress

Promise(id) == [promise |-> id, error |-> ""]
Rejected(error) == [promise |-> 0, error |-> error]

\* Deferred.resolve() and Deferred.reject(): a settled promise stays as it is
Settle(id, state) ==
    IF id \in 1..Len(completions) /\ completions[id] = "pending"
    THEN [completions EXCEPT ![id] = state]
    ELSE completions

\* what a call can change of the installation, as the call meets it and leaves it
Installation ==
    [installInProgress |-> installInProgress,
     installCompletion |-> installCompletion,
     pythonInstallationPath |-> pythonInstallationPath,
     usingExistingPython |-> usingExistingPython,
     operations |-> Len(operations)]

\* startInstallProcess from the in-progress check to its await of configurePackagePaths
EnterInstall(p, c) ==
    IF waitsForInstall
    THEN /\ caller' = [caller EXCEPT ![p] =
                [c EXCEPT !.pc = "returned",
                          !.met = {Installation}, !.left = {Installation},
                          !.shown = Append(@, msgWaitingForInstall),
                          !.returned = {Promise(installCompletion)}]]
         /\ UNCHANGED <<installInProgress, installCompletion, completions,
                        pythonInstallationPath, usingExistingPython, pythonExecutable>>
    ELSE /\ installInProgress' = TRUE
         /\ completions' = Append(completions, "pending")
         /\ installCompletion' = Len(completions) + 1
         /\ pythonInstallationPath' = installSettingsOf(c.installSettings).installPath
         /\ usingExistingPython' = installSettingsOf(c.installSettings).existingPython
         /\ pythonExecutable' =
                {getPythonExePath(installSettingsOf(c.installSettings).installPath,
                                  installSettingsOf(c.installSettings).existingPython)}
         /\ caller' = [caller EXCEPT ![p] =
                [c EXCEPT !.pc = "configurePackagePaths", !.met = {Installation}]]

installUnchanged == <<platform, runningPython, installedPip, notebookConfig,
                      kernelSetupCache, operations, packageCalls>>

\* startInstallProcess(forceInstall, installSettings) is called
StartInstallProcess(p) ==
    /\ caller[p].pc = "idle"
    /\ \A q \in 1..(p - 1) : caller[q].pc # "idle"
    /\ \E forceInstall \in BOOLEAN, given \in InstallSettingsGiven :
        LET settings == installSettingsOf(given)
            c == [caller[p] EXCEPT !.forceInstall = forceInstall,
                                   !.installSettings = {settings}]
        IN  IF checksPythonRunning(settings)
            THEN /\ caller' = [caller EXCEPT ![p] = [c EXCEPT !.pc = "isPythonRunning"]]
                 /\ UNCHANGED <<installInProgress, installCompletion, completions,
                                pythonInstallationPath, usingExistingPython,
                                pythonExecutable>>
            ELSE EnterInstall(p, c)
    /\ UNCHANGED installUnchanged
    /\ UNCHANGED notInstall

\* isPythonRunning has answered
PythonRunningChecked(p) ==
    /\ caller[p].pc = "isPythonRunning"
    /\ \E commandFails \in BOOLEAN :
        LET settings == installSettingsOf(caller[p].installSettings)
            running == isPythonRunning(getPythonExePath(settings.installPath, FALSE),
                                       commandFails)
            c == [caller[p] EXCEPT !.running = {running}]
        IN  IF running
            THEN /\ caller' = [caller EXCEPT ![p] =
                        [c EXCEPT !.pc = "returned",
                                  !.met = {Installation}, !.left = {Installation},
                                  !.returned = {Rejected(msgPythonRunningError)}]]
                 /\ UNCHANGED <<installInProgress, installCompletion, completions,
                                pythonInstallationPath, usingExistingPython,
                                pythonExecutable>>
            ELSE EnterInstall(p, c)
    /\ UNCHANGED installUnchanged
    /\ UNCHANGED notInstall

\* a background operation as startBackgroundOperation registers it
NewOperation(p, c) ==
    [pc |-> "registered", forceInstall |-> c.forceInstall,
     packages |-> installSettingsOf(c.installSettings).packages,
     existingPython |-> installSettingsOf(c.installSettings).existingPython,
     by |-> p, completion |-> installCompletion, met |-> c.met,
     pythonExists |-> {}, download |-> "none", stage |-> "none",
     outcome |-> "", log |-> <<>>]

\* the first configurePackagePaths of startInstallProcess has ended, and with it the call
PackagePathsConfigured(p) ==
    /\ caller[p].pc = "configurePackagePaths"
    /\ \E throws \in BOOLEAN :
        IF throws
        THEN /\ caller' = [caller EXCEPT ![p].pc = "returned",
                                         ![p].left = {Installation},
                                         ![p].returned = {Rejected("configurePackagePaths")}]
             /\ UNCHANGED operations
        ELSE /\ operations' = Append(operations, NewOperation(p, caller[p]))
             /\ caller' = [caller EXCEPT ![p].pc = "returned",
                                         ![p].left = {[Installation EXCEPT
                                                        !.operations = @ + 1]},
                                         ![p].returned = {Promise(installCompletion)}]
    /\ UNCHANGED <<platform, runningPython, installedPip, notebookConfig,
                   pythonInstallationPath, usingExistingPython, pythonExecutable,
                   installInProgress, installCompletion, kernelSetupCache, completions,
                   packageCalls>>
    /\ UNCHANGED notInstall

----------------------------------------------------------------------------
(* The background operation of startInstallProcess: installDependencies and *)
(* what follows it.  The log of an operation holds, in order, what it told  *)
(* the task (updateStatus) and the output channel (appendLine), and what it *)
(* did: the calls of reject and resolve of installPythonPackage's promise,  *)
(* the unpacking of the download, the call of upgradePythonPackages and its *)
(* pip command.                                                             *)

Entry(kind, status, message) ==
    [kind |-> kind, status |-> status, message |-> message, arguments |-> <<>>]
updateStatus(status, message) == Entry("updateStatus", status, message)
appendLine(message) == Entry("appendLine", "", message)
Did(what) == Entry(what, "", "")

Logged(op, entries) == [op EXCEPT !.log = @ \o entries]

\* reject(err) and resolve() of installPythonPackage's promise
rejected(op) ==
    [Logged(op, <<Did("reject")>>) EXCEPT
        !.download = IF @ = "pending" THEN "rejected" ELSE @]
resolved(op) ==
    [Logged(op, <<Did("resolve")>>) EXCEPT
        !.download = IF @ = "pending" THEN "resolved" ELSE @]

\* installDependencies: whether installPythonPackage is called
MutantInstallsPython(pythonExists, forceInstall) == TRUE
installsPython(pythonExists, forceInstall) == ~ pythonExists \/ forceInstall

\* the catch of installDependencies and the catch of the operation
Fails(i, op) ==
    /\ operations' = [operations EXCEPT ![i] =
            [Logged(op, <<appendLine(msgDependenciesInstallationFailed),
                          updateStatus("Failed", msgDependenciesInstallationFailed)>>)
                EXCEPT !.pc = "done", !.outcome = "failed"]]
    /\ completions' = Settle(installCompletion, "rejected")
    /\ installInProgress' = FALSE

onlyOperations == <<platform, runningPython, installedPip, notebookConfig,
                    pythonInstallationPath, usingExistingPython, pythonExecutable,
                    installInProgress, installCompletion, kernelSetupCache,
                    completions, caller, packageCalls>>

\* the task calls the operation: installDependencies runs to its first await
OperationInvoked(i) ==
    /\ i <= Len(operations)
    /\ operations[i].pc = "registered"
    /\ operations' = [operations EXCEPT ![i] =
            [Logged(@, <<appendLine(msgInstallPkgProgress),
                         updateStatus("InProgress", msgInstallPkgProgress)>>)
                EXCEPT !.pc = "exists"]]
    /\ UNCHANGED onlyOperations
    /\ UNCHANGED notInstall

\* installDependencies after utils.exists(_pythonExecutable): installPythonPackage is
\* called, up to its call of fs.mkdirs, or skipped
PythonExistsChecked(i) ==
    /\ i <= Len(operations)
    /\ operations[i].pc = "exists"
    /\ \E pythonExists \in BOOLEAN :
        LET op == [operations[i] EXCEPT !.pythonExists = {pythonExists}]
        IN  operations' = [operations EXCEPT ![i] =
                IF ~ installsPython(pythonExists, op.forceInstall)
                THEN [op EXCEPT !.pc = "upgradePythonPackages"]
                ELSE IF usingExistingPython
                THEN [op EXCEPT !.pc = "installPythonPackage", !.download = "resolved"]
                ELSE [Logged(op, <<updateStatus("InProgress", msgDownloadPython)>>)
                        EXCEPT !.pc = "installPythonPackage", !.download = "pending",
                               !.stage = "mkdirs"]]
    /\ UNCHANGED onlyOperations
    /\ UNCHANGED notInstall

\* installPythonPackage, the callback of fs.mkdirs
DirectoryMade(i) ==
    /\ i <= Len(operations)
    /\ operations[i].stage = "mkdirs"
    /\ \E err \in BOOLEAN :
        operations' = [operations EXCEPT ![i] =
            IF err
            THEN [rejected(Logged(@, <<updateStatus("InProgress", msgPythonDirectoryError)>>))
                    EXCEPT !.stage = "ended"]
            ELSE [@ EXCEPT !.stage = "request"]]
    /\ UNCHANGED onlyOperations
    /\ UNCHANGED notInstall

\* installPythonPackage, the request's 'error' and 'response' handlers
DownloadResponds(i) ==
    /\ i <= Len(operations)
    /\ operations[i].stage = "request"
    /\ \E outcome \in {"error", "statusCode", "ok"} :
        operations' = [operations EXCEPT ![i] =
            CASE outcome = "error" ->
                    [rejected(Logged(@, <<updateStatus("InProgress", msgPythonDownloadError)>>))
                        EXCEPT !.stage = "ended"]
              [] outcome = "statusCode" ->
                    [rejected(Logged(@, <<updateStatus("InProgress", msgPythonDownloadError)>>))
                        EXCEPT !.stage = "piping"]
              [] outcome = "ok" ->
                    [Logged(@, <<appendLine(msgPythonDownloadPending)>>)
                        EXCEPT !.stage = "piping"]]
    /\ UNCHANGED onlyOperations
    /\ UNCHANGED notInstall

\* installPythonPackage, the write stream's 'error' handler and its 'close' handler up
\* to the await of utils.exists
StreamEnds(i) ==
    /\ i <= Len(operations)
    /\ operations[i].stage = "piping"
    /\ \E outcome \in {"error", "close"} :
        operations' = [operations EXCEPT ![i] =
            IF outcome = "error"
            THEN [rejected(Logged(@, <<updateStatus("InProgress", msgPythonDownloadError)>>))
                    EXCEPT !.stage = "ended"]
            ELSE [Logged(@, <<appendLine(msgPythonUnpackPending)>>)
                    EXCEPT !.stage = "closed"]]
    /\ UNCHANGED onlyOperations
    /\ UNCHANGED notInstall

\* what the 'close' handler reports once the download is unpacked
reportsComplete(op) ==
    resolved(Logged(op, <<appendLine(msgPythonDownloadComplete),
                          updateStatus("InProgress", msgPythonDownloadComplete)>>))

\* the 'close' handler on Windows: the zip file is extracted
extractsZip(op, throws) ==
    LET extracted == Logged(op, <<Did("unpack")>>)
    IN  reportsComplete(
            IF throws
            THEN rejected(Logged(extracted,
                                 <<updateStatus("InProgress", msgPythonUnpackError)>>))
            ELSE extracted)

\* installPythonPackage, the rest of the 'close' handler
Unpacks(i) ==
    /\ i <= Len(operations)
    /\ operations[i].stage = "closed"
    /\ \E removeThrows \in BOOLEAN, throws \in BOOLEAN :
        operations' = [operations EXCEPT ![i] =
            IF removeThrows
            THEN [rejected(Logged(@, <<updateStatus("InProgress", msgPythonUnpackError)>>))
                    EXCEPT !.stage = "ended"]
            ELSE IF platform = winPlatform
            THEN [extractsZip(@, throws) EXCEPT !.stage = "ended"]
            ELSE [Logged(@, <<Did("unpack")>>) EXCEPT !.stage = "extracting"]]
    /\ UNCHANGED onlyOperations
    /\ UNCHANGED notInstall

\* installPythonPackage, the then and the catch of tar.extract
TarExtracted(i) ==
    /\ i <= Len(operations)
    /\ operations[i].stage = "extracting"
    /\ \E throws \in BOOLEAN :
        operations' = [operations EXCEPT ![i] =
            IF throws
            THEN [rejected(Logged(@, <<updateStatus("InProgress", msgPythonUnpackError)>>))
                    EXCEPT !.stage = "ended"]
            ELSE [reportsComplete(@) EXCEPT !.stage = "ended"]]
    /\ UNCHANGED onlyOperations
    /\ UNCHANGED notInstall

\* installDependencies after its await of installPythonPackage
PythonPackageInstalled(i) ==
    /\ i <= Len(operations)
    /\ operations[i].pc = "installPythonPackage"
    /\ operations[i].download \in {"resolved", "rejected"}
    /\ IF operations[i].download = "resolved"
       THEN /\ operations' = [operations EXCEPT ![i].pc = "upgradePythonPackages"]
            /\ UNCHANGED <<completions, installInProgress>>
       ELSE Fails(i, operations[i])
    /\ UNCHANGED <<platform, runningPython, installedPip, notebookConfig,
                   pythonInstallationPath, usingExistingPython, pythonExecutable,
                   installCompletion, kernelSetupCache, caller, packageCalls>>
    /\ UNCHANGED notInstall

\* the pip command of upgradePythonPackages, in the log
PipInstall(arguments) == [Did("pip install") EXCEPT !.arguments = arguments]

\* installDependencies: upgradePythonPackages and, when it succeeds, the rest
PackagesUpgraded(i) ==
    /\ i <= Len(operations)
    /\ operations[i].pc = "upgradePythonPackages"
    /\ \E listFails \in BOOLEAN, installFails \in BOOLEAN :
        LET op == operations[i]
            packagesToInstall ==
                upgradePythonPackages(op.forceInstall, op.packages,
                                      getInstalledPipPackages(listFails))
            arguments == installPipPackages(packagesToInstall, TRUE)
            ran == Logged(op, IF Len(packagesToInstall) > 0
                              THEN <<Did("upgradePythonPackages"), PipInstall(arguments)>>
                              ELSE <<Did("upgradePythonPackages")>>)
        IN  IF Len(packagesToInstall) > 0 /\ installFails
            THEN /\ Fails(i, ran)
                 /\ UNCHANGED installedPip
            ELSE /\ installedPip' = IF Len(packagesToInstall) > 0
                                    THEN PipInstalled(installedPip, arguments)
                                    ELSE installedPip
                 /\ operations' = [operations EXCEPT ![i] =
                        [Logged(ran, <<appendLine(msgInstallPkgFinish),
                                       updateStatus("Succeeded", msgInstallPkgFinish)>>)
                            EXCEPT !.pc = "settings"]]
                 /\ UNCHANGED <<completions, installInProgress>>
    /\ UNCHANGED <<platform, runningPython, notebookConfig,
                   pythonInstallationPath, usingExistingPython, pythonExecutable,
                   installCompletion, kernelSetupCache, caller, packageCalls>>
    /\ UNCHANGED notInstall

\* the operation's then: the two updates of the notebook settings
SettingsUpdated(i) ==
    /\ i <= Len(operations)
    /\ operations[i].pc = "settings"
    /\ \E fails \in {"none", "pythonPath", "useExistingPython"} :
        /\ notebookConfig' =
                CASE fails = "none" ->
                        [pythonPath |-> {pythonInstallationPath},
                         useExistingPython |-> usingExistingPython]
                  [] fails = "pythonPath" -> notebookConfig
                  [] fails = "useExistingPython" ->
                        [notebookConfig EXCEPT !.pythonPath = {pythonInstallationPath}]
        /\ IF fails = "none"
           THEN /\ operations' = [operations EXCEPT ![i].pc = "configurePackagePaths"]
                /\ UNCHANGED <<completions, installInProgress>>
           ELSE Fails(i, operations[i])
    /\ UNCHANGED <<platform, runningPython, installedPip,
                   pythonInstallationPath, usingExistingPython, pythonExecutable,
                   installCompletion, kernelSetupCache, caller, packageCalls>>
    /\ UNCHANGED notInstall

\* the operation's then: configurePackagePaths and the end of the installation
InstallCompleted(i) ==
    /\ i <= Len(operations)
    /\ operations[i].pc = "configurePackagePaths"
    /\ \E throws \in BOOLEAN :
        IF throws
        THEN Fails(i, operations[i])
        ELSE /\ operations' = [operations EXCEPT ![i].pc = "done",
                                                 ![i].outcome = "succeeded"]
             /\ completions' = Settle(installCompletion, "resolved")
             /\ installInProgress' = FALSE
    /\ pythonExecutable' = {getPythonExePath(pythonInstallationPath, usingExistingPython)}
    /\ UNCHANGED <<platform, runningPython, installedPip, notebookConfig,
                   pythonInstallationPath, usingExistingPython,
                   installCompletion, kernelSetupCache, caller, packageCalls>>
    /\ UNCHANGED notInstall

\* the machines tried: the platform, where python is running from, what pip has
\* installed (nothing, or jupyter alone)
NothingInstalled == [n \in requiredPackagesSet |-> <<>>]
JupyterInstalled == [NothingInstalled EXCEPT !["jupyter"] = <<1, 0, 0>>]
Machines ==
    { <<winPlatform, {DefaultPythonLocation}, JupyterInstalled>>,
      <<winPlatform, {}, NothingInstalled>>,
      <<"linux", {DefaultPythonLocation}, NothingInstalled>>,
      <<"linux", {}, JupyterInstalled>> }

\* the constructor of JupyterServerInstallation, on the machines tried and with no
\* notebook settings
InitInstall ==
    /\ \E machine \in Machines :
        /\ platform = machine[1]
        /\ runningPython = machine[2]
        /\ installedPip = machine[3]
    /\ notebookConfig = [pythonPath |-> {}, useExistingPython |-> FALSE]
    /\ pythonInstallationPath = getPythonInstallPath(notebookConfig)
    /\ usingExistingPython = notebookConfig.useExistingPython
    /\ pythonExecutable = {}
    /\ installInProgress = FALSE
    /\ installCompletion = 0
    /\ kernelSetupCache = {}
    /\ completions = <<>>
    /\ caller = [p \in 1..MaxInstallCalls |-> NotCalled]
    /\ operations = <<>>
    /\ packageCalls = <<>>
    /\ validation = NoValidation
    /\ validationResult = NoResult
    /\ expected = {}
    /\ inputBoxCalls = <<>>
    /\ inputBoxReturn = {}
    /\ validationList = <<>>
    /\ baseline = "newProjectFileBaseline"
    /\ projFile = newProjectFileBaseline
    /\ backupFile = {}
    /\ scriptFiles = EmptyVariables
    /\ project = readProjFile(projFile)
    /\ before = [project |-> project, projFile |-> projFile]
    /\ calls = <<>>
    /\ messages = <<>>
    /\ pc = "idle"
    /\ channel = "userDataAutoSync"
    /\ channelCalls = <<>>
    /\ serviceCalls = <<>>
    /\ TabNotRendered
    /\ DialogNotOpened

NextInstall ==
    \/ \E p \in 1..MaxInstallCalls :
        \/ StartInstallProcess(p)
        \/ PythonRunningChecked(p)
        \/ PackagePathsConfigured(p)
    \/ \E i \in 1..MaxInstallCalls :
        \/ OperationInvoked(i)
        \/ PythonExistsChecked(i)
        \/ DirectoryMade(i)
        \/ DownloadResponds(i)
        \/ StreamEnds(i)
        \/ Unpacks(i)
        \/ TarExtracted(i)
        \/ PythonPackageInstalled(i)
        \/ PackagesUpgraded(i)
        \/ SettingsUpdated(i)
        \/ InstallCompleted(i)

SpecInstall == InitInstall /\ [][NextInstall]_vars

----------------------------------------------------------------------------
(* Claims on startInstallProcess.                                           *)

CallReturned(p) == caller[p].pc = "returned"
Met(p) == CHOOSE m \in caller[p].met : TRUE
MetInstallInProgress(p) ==
    CallReturned(p) /\ caller[p].met # {} /\ Met(p).installInProgress

\* the installations running: marked in progress, and not ended by a throw of
\* configurePackagePaths or by the end of the background operation
InstallationsRunning ==
    Cardinality({ p \in 1..MaxInstallCalls : caller[p].pc = "configurePackagePaths" })
    + Cardinality({ i \in 1..Len(operations) : operations[i].pc # "done" })

\* the call left the installation as it met it and returned the completion promise
\* of the installation it met
WaitedForInstall(p) ==
    /\ caller[p].left = caller[p].met
    /\ caller[p].returned = {Promise(Met(p).installCompletion)}

\* C12 as stated: at most one installation runs at a time, and every call that meets
\* an installation in progress starts no background operation, changes neither the
\* installation path nor the use-existing-Python flag, and returns the completion
\* promise of the installation in progress.
C12_Original ==
    /\ InstallationsRunning <= 1
    /\ \A p \in 1..MaxInstallCalls : MetInstallInProgress(p) => WaitedForInstall(p)

\* C12: at most one installation runs at a time, and every call that meets an
\* installation in progress and is not rejected by the running-Python check made
\* before the in-progress check starts no background operation, changes neither the
\* installation path nor the use-existing-Python flag, and returns the completion
\* promise of the installation in progress.
C12_OneInstallation ==
    /\ InstallationsRunning <= 1
    /\ \A p \in 1..MaxInstallCalls :
        MetInstallInProgress(p)
            => \/ caller[p].returned = {Rejected(msgPythonRunningError)}
               \/ WaitedForInstall(p)

\* the second call has waited for the installation of the first, whose background
\* operation is running
C12_Witness ==
    /\ Len(operations) = 1
    /\ operations[1].by = 1
    /\ operations[1].pc = "installPythonPackage"
    /\ MetInstallInProgress(2)
    /\ caller[2].shown = <<msgWaitingForInstall>>
    /\ caller[2].returned = {Promise(1)}

SettingsOf(p) == CHOOSE settings \in caller[p].installSettings : TRUE
PastRunningCheck(p) == caller[p].pc \in {"configurePackagePaths", "returned"}

\* the call was rejected because python is running, and left the installation as it
\* met it: not marked in progress, the path and the flag unchanged, no operation started
RejectedAsRunning(p) ==
    /\ caller[p].pc = "returned"
    /\ caller[p].returned = {Rejected(msgPythonRunningError)}
    /\ caller[p].left = caller[p].met

\* the running-Python check was not made
CheckSkipped(p) ==
    /\ caller[p].running = {}
    /\ caller[p].returned # {Rejected(msgPythonRunningError)}

\* C13 as stated: a call with existingPython false is rejected, changing nothing,
\* whenever a python process is running from the target install path; with
\* existingPython true the check is skipped.
C13_Original ==
    \A p \in 1..MaxInstallCalls :
        PastRunningCheck(p) =>
            /\ (~ SettingsOf(p).existingPython /\ SettingsOf(p).installPath \in runningPython)
                    => RejectedAsRunning(p)
            /\ SettingsOf(p).existingPython => CheckSkipped(p)

\* C13: a call with existingPython false is rejected with msgPythonRunningError,
\* changing nothing, exactly when isPythonRunning reports a python process running
\* from the target install path, which it does only on Windows and only of a process
\* that is running from that path; with existingPython true the check is skipped.
C13_RunningCheck ==
    \A p \in 1..MaxInstallCalls :
        PastRunningCheck(p) =>
            /\ caller[p].running = {TRUE} => RejectedAsRunning(p)
            /\ caller[p].returned = {Rejected(msgPythonRunningError)}
                    => caller[p].running = {TRUE}
            /\ caller[p].running = {TRUE}
                    => /\ platform = winPlatform
                       /\ ~ SettingsOf(p).existingPython
                       /\ SettingsOf(p).installPath \in runningPython
            /\ ~ SettingsOf(p).existingPython => caller[p].running # {}
            /\ SettingsOf(p).existingPython => CheckSkipped(p)

\* the first call, made with no installation in progress, was rejected because python
\* is running from the default location; nothing is marked and no operation started
C13_Witness ==
    /\ RejectedAsRunning(1)
    /\ ~ Met(1).installInProgress
    /\ SettingsOf(1).installPath = DefaultPythonLocation
    /\ ~ installInProgress
    /\ installCompletion = 0
    /\ operations = <<>>

\* the state of the completion promise an ended operation leaves
SettledAs(outcome) == IF outcome = "succeeded" THEN "resolved" ELSE "rejected"

\* C14: an installation marked in progress ends with the flag cleared and its completion
\* promise settled, resolved on success and rejected on failure, whichever step fails:
\* the flag is set, and a completion promise is pending, only while a step of that
\* installation is still to run, so that no waiter waits forever and a later
\* installation can start.
C14_InstallationEnds ==
    /\ installInProgress => InstallationsRunning > 0
    /\ \A id \in 1..Len(completions) :
        completions[id] = "pending" => (InstallationsRunning > 0 /\ id = installCompletion)
    /\ \A i \in 1..Len(operations) :
        operations[i].pc = "done"
            => completions[operations[i].completion] = SettledAs(operations[i].outcome)

\* the installation is as the call that started operation i met it
AsMetBy(met) ==
    \A m \in met :
        /\ pythonInstallationPath = m.pythonInstallationPath
        /\ usingExistingPython = m.usingExistingPython

\* C15: after an installation has failed, and until the next one is started, the
\* installation path and the use-existing-Python flag are what they were before the
\* call that started it; the notebook settings are updated by successful installations
\* only.
C15_FailureRestores ==
    /\ \A i \in 1..Len(operations) :
        (operations[i].outcome = "failed" /\ operations[i].completion = installCompletion)
            => AsMetBy(operations[i].met)
    /\ \A p \in 1..MaxInstallCalls :
        (caller[p].returned = {Rejected("configurePackagePaths")}
            /\ \A l \in caller[p].left : l.installCompletion = installCompletion)
            => AsMetBy(caller[p].met)
    /\ (\A i \in 1..Len(operations) : operations[i].outcome # "succeeded")
            => notebookConfig = [pythonPath |-> {}, useExistingPython |-> FALSE]

----------------------------------------------------------------------------
(* Claims on installDependencies and installPythonPackage.                  *)

\* the places of the log of an operation where it did this, or reported this status
PlacesOf(op, kind) == { k \in 1..Len(op.log) : op.log[k].kind = kind }
StatusPlaces(op, status) ==
    { k \in PlacesOf(op, "updateStatus") : op.log[k].status = status }
MessagePlaces(op, message) == { k \in 1..Len(op.log) : op.log[k].message = message }

\* the download and unpacking of the bundle has begun
Downloads(op) == MessagePlaces(op, msgDownloadPython) # {}

\* installPythonPackage has ended without an error
PythonPackageDoneBy(op, k) ==
    IF Downloads(op)
    THEN \E r \in PlacesOf(op, "resolve") :
            /\ r < k
            /\ \A e \in PlacesOf(op, "reject") : r < e
            /\ \E u \in PlacesOf(op, "unpack") : u < r
    ELSE PlacesOf(op, "unpack") = {}

\* C16: the bundle is downloaded and unpacked only if the python executable does not
\* exist or forceInstall is true, and never when the installation targets an existing
\* Python; Succeeded is reported only after upgradePythonPackages has run, which runs
\* only after installPythonPackage, if called, has ended without an error, and not
\* after the pip command has failed; every successful installation has reported it.
C16_StepsInOrder ==
    \A i \in 1..Len(operations) :
        LET op == operations[i]
        IN  /\ (Downloads(op) \/ PlacesOf(op, "unpack") # {})
                => /\ op.pythonExists = {FALSE} \/ op.forceInstall
                   /\ ~ op.existingPython
                   /\ Downloads(op)
            /\ \A u \in PlacesOf(op, "upgradePythonPackages") : PythonPackageDoneBy(op, u)
            /\ \A k \in StatusPlaces(op, "Succeeded") :
                /\ \E u \in PlacesOf(op, "upgradePythonPackages") : u < k
                /\ \A f \in StatusPlaces(op, "Failed") : k < f
                /\ op.download \in {"none", "resolved"}
            /\ op.outcome = "succeeded" => StatusPlaces(op, "Succeeded") # {}

\* an installation that downloaded and unpacked the bundle, ran the pip command and
\* succeeded
C16_Witness ==
    /\ Len(operations) = 1
    /\ operations[1].outcome = "succeeded"
    /\ operations[1].pythonExists = {TRUE}
    /\ operations[1].forceInstall
    /\ PlacesOf(operations[1], "unpack") # {}
    /\ PlacesOf(operations[1], "pip install") # {}
    /\ StatusPlaces(operations[1], "Succeeded") # {}

\* the download or the unpacking has failed: the operation reported one of these
DownloadFailures(op) ==
    MessagePlaces(op, msgPythonDownloadError) \cup MessagePlaces(op, msgPythonUnpackError)

\* C19: when the download fails or the unpacking throws, installPythonPackage rejects,
\* and from then on it neither unpacks the downloaded file nor reports
\* msgPythonDownloadComplete, as a status or as an output line.
C19_RejectEndsDownload ==
    \A i \in 1..Len(operations) :
        LET op == operations[i]
        IN  /\ \A k \in DownloadFailures(op) :
                /\ k + 1 \in PlacesOf(op, "reject")
                /\ op.download = "rejected"
            /\ \A e \in PlacesOf(op, "reject") :
                \A k \in (e + 1)..Len(op.log) :
                    /\ op.log[k].kind # "unpack"
                    /\ op.log[k].message # msgPythonDownloadComplete

----------------------------------------------------------------------------
(* The package calls of JupyterServerInstallation: upgradePythonPackages,   *)
(* areRequiredPackagesInstalled, promptForPythonInstall and the two         *)
(* uninstalls.  A call stops at each await; the package list it awaits is   *)
(* read by the pip command while the call is stopped.                       *)

KernelsTried == {python3DisplayName, powershellDisplayName, pysparkDisplayName}

\* the package lists handed to the uninstalls; numpy is no required package
UninstallsTried == { <<jupyterPkg>>, <<Pkg("pandas", <<0, 24, 2>>)>>, <<Pkg("numpy", <<1, 19, 0>>)>> }

\* what pip has installed on the machines tried
RequiredInstalled ==
    [n \in requiredPackagesSet |->
        allPackages[CHOOSE i \in 1..Len(allPackages) : allPackages[i].name = n].version]
PipListsTried ==
    { NothingInstalled,
      RequiredInstalled,
      [RequiredInstalled EXCEPT !["jupyter"] = <<0, 9, 12>>, !["pandas"] = <<1, 0>>],
      [NothingInstalled EXCEPT !["jupyter"] = <<1, 0, 0>>, !["powershell-kernel"] = <<0, 1, 3>>] }

\* JupyterServerInstallation.isPythonInstalled()
isPythonInstalled == notebookConfig.pythonPath # {}

\* areRequiredPackagesInstalled, the loop over the required packages
allRequiredInstalled(installed, kernelDisplayName) ==
    \A i \in 1..Len(getRequiredPackagesForKernel(kernelDisplayName)) :
        ~ NeedsInstall(installed, getRequiredPackagesForKernel(kernelDisplayName)[i])

\* uninstallPipPackages and uninstallCondaPackages: whether the cache is cleared
clearsCache(packages) ==
    \E i \in 1..Len(packages) : packages[i].name \in requiredPackagesSet

\* what pip has installed once these packages are uninstalled
Uninstalled(installed, packages) ==
    [n \in DOMAIN installed |->
        IF \E i \in 1..Len(packages) : packages[i].name = n THEN <<>> ELSE installed[n]]

PackageCall(method, pcOf) ==
    [method |-> method, pc |-> pcOf, forceInstall |-> FALSE, kernel |-> "",
     packages |-> <<>>, seen |-> {}, command |-> {}, result |-> {}]

onlyPackageCalls == <<platform, runningPython, installedPip, notebookConfig,
                      pythonInstallationPath, usingExistingPython, pythonExecutable,
                      installInProgress, installCompletion, kernelSetupCache,
                      completions, caller, operations>>
packagesUnchanged == <<platform, runningPython, notebookConfig,
                       pythonInstallationPath, usingExistingPython, pythonExecutable,
                       installInProgress, installCompletion, completions, caller,
                       operations>>

\* upgradePythonPackages(forceInstall, packages) is called
UpgradeCalled ==
    /\ Len(packageCalls) < MaxPackageCalls
    /\ \E forceInstall \in BOOLEAN, kernel \in KernelsTried \cup {""} :
        LET packages == getRequiredPackagesForKernel(kernel)
            call == [PackageCall("upgradePythonPackages", "getInstalledPipPackages")
                        EXCEPT !.forceInstall = forceInstall, !.packages = packages]
        IN  packageCalls' = Append(packageCalls,
                IF ~ forceInstall THEN call
                ELSE IF Len(packages) > 0
                THEN [call EXCEPT !.pc = "pip",
                                  !.command = {installPipPackages(
                                      upgradePythonPackages(TRUE, packages, <<>>), TRUE)}]
                ELSE [call EXCEPT !.pc = "done"])
    /\ UNCHANGED onlyPackageCalls
    /\ UNCHANGED notInstall

\* the pip list command of getInstalledPipPackages runs
PackagesListed(j) ==
    /\ j <= Len(packageCalls)
    /\ packageCalls[j].pc = "getInstalledPipPackages"
    /\ \E listFails \in BOOLEAN :
        packageCalls' = [packageCalls EXCEPT ![j].pc = "listed",
                                             ![j].seen = {getInstalledPipPackages(listFails)}]
    /\ UNCHANGED onlyPackageCalls
    /\ UNCHANGED notInstall

Seen(j) == CHOOSE installed \in packageCalls[j].seen : TRUE

\* upgradePythonPackages after its await of getInstalledPipPackages
UpgradeResumes(j) ==
    /\ j <= Len(packageCalls)
    /\ packageCalls[j].method = "upgradePythonPackages"
    /\ packageCalls[j].pc = "listed"
    /\ LET packagesToInstall ==
                upgradePythonPackages(FALSE, packageCalls[j].packages, Seen(j))
       IN  packageCalls' = [packageCalls EXCEPT ![j] =
                IF Len(packagesToInstall) > 0
                THEN [@ EXCEPT !.pc = "pip",
                               !.command = {installPipPackages(packagesToInstall, TRUE)}]
                ELSE [@ EXCEPT !.pc = "done"]]
    /\ UNCHANGED onlyPackageCalls
    /\ UNCHANGED notInstall

\* the pip install command has ended
PipInstallEnds(j) ==
    /\ j <= Len(packageCalls)
    /\ packageCalls[j].pc = "pip"
    /\ \E fails \in BOOLEAN :
        /\ installedPip' =
                IF fails THEN installedPip
                ELSE PipInstalled(installedPip,
                                  CHOOSE arguments \in packageCalls[j].command : TRUE)
        /\ packageCalls' = [packageCalls EXCEPT ![j].pc = "done", ![j].result = {~ fails}]
    /\ UNCHANGED <<kernelSetupCache, packagesUnchanged>>
    /\ UNCHANGED notInstall

\* areRequiredPackagesInstalled(kernelDisplayName) or
\* promptForPythonInstall(kernelDisplayName) is called
RequiredPackagesCalled ==
    /\ Len(packageCalls) < MaxPackageCalls
    /\ \E method \in {"areRequiredPackagesInstalled", "promptForPythonInstall"},
          kernel \in KernelsTried :
        LET call == [PackageCall(method, "getInstalledPipPackages") EXCEPT !.kernel = kernel]
        IN  packageCalls' = Append(packageCalls,
                IF method = "promptForPythonInstall" /\ installInProgress
                THEN [call EXCEPT !.pc = "done"]
                ELSE IF kernel \in kernelSetupCache
                THEN [call EXCEPT !.result = {TRUE},
                                  !.pc = IF method = "promptForPythonInstall"
                                            /\ ~ isPythonInstalled
                                         THEN "wizard" ELSE "done"]
                ELSE call)
    /\ UNCHANGED onlyPackageCalls
    /\ UNCHANGED notInstall

\* areRequiredPackagesInstalled after its await of getInstalledPipPackages, and what
\* promptForPythonInstall makes of its answer
RequiredPackagesChecked(j) ==
    /\ j <= Len(packageCalls)
    /\ packageCalls[j].method \in {"areRequiredPackagesInstalled", "promptForPythonInstall"}
    /\ packageCalls[j].pc = "listed"
    /\ LET installed == allRequiredInstalled(Seen(j), packageCalls[j].kernel)
       IN  /\ kernelSetupCache' = IF installed
                                  THEN kernelSetupCache \cup {packageCalls[j].kernel}
                                  ELSE kernelSetupCache
           /\ packageCalls' = [packageCalls EXCEPT
                    ![j].result = {installed},
                    ![j].pc = IF packageCalls[j].method = "promptForPythonInstall"
                                 /\ (~ isPythonInstalled \/ ~ installed)
                              THEN "wizard" ELSE "done"]
    /\ UNCHANGED <<installedPip, packagesUnchanged>>
    /\ UNCHANGED notInstall

\* the wizard of promptForPythonInstall has ended: with the required packages of the
\* kernel installed and setupComplete resolved, or cancelled
SetupCompleted(j) ==
    /\ j <= Len(packageCalls)
    /\ packageCalls[j].pc = "wizard"
    /\ \E completes \in BOOLEAN :
        IF completes
        THEN /\ installedPip' = PipInstalled(installedPip,
                    installPipPackages(
                        getRequiredPackagesForKernel(packageCalls[j].kernel), TRUE))
             /\ kernelSetupCache' = kernelSetupCache \cup {packageCalls[j].kernel}
        ELSE UNCHANGED <<installedPip, kernelSetupCache>>
    /\ packageCalls' = [packageCalls EXCEPT ![j].pc = "done"]
    /\ UNCHANGED packagesUnchanged
    /\ UNCHANGED notInstall

\* uninstallPipPackages(packages) or uninstallCondaPackages(packages) is called
UninstallCalled ==
    /\ Len(packageCalls) < MaxPackageCalls
    /\ \E method \in {"uninstallPipPackages", "uninstallCondaPackages"},
          packages \in UninstallsTried :
        /\ kernelSetupCache' = IF clearsCache(packages) THEN {} ELSE kernelSetupCache
        /\ packageCalls' = Append(packageCalls,
                [PackageCall(method, "uninstall") EXCEPT !.packages = packages])
    /\ UNCHANGED <<installedPip, packagesUnchanged>>
    /\ UNCHANGED notInstall

\* the uninstall command has ended
UninstallEnds(j) ==
    /\ j <= Len(packageCalls)
    /\ packageCalls[j].pc = "uninstall"
    /\ \E fails \in BOOLEAN :
        /\ installedPip' = IF fails THEN installedPip
                           ELSE Uninstalled(installedPip, packageCalls[j].packages)
        /\ packageCalls' = [packageCalls EXCEPT ![j].pc = "done", ![j].result = {~ fails}]
    /\ UNCHANGED <<kernelSetupCache, packagesUnchanged>>
    /\ UNCHANGED notInstall

\* the constructor of JupyterServerInstallation, with python installed at the default
\* location and one of the package lists tried
InitPackages ==
    /\ platform = "linux"
    /\ runningPython = {}
    /\ installedPip \in PipListsTried
    /\ notebookConfig = [pythonPath |-> {DefaultPythonLocation}, useExistingPython |-> FALSE]
    /\ pythonInstallationPath = getPythonInstallPath(notebookConfig)
    /\ usingExistingPython = notebookConfig.useExistingPython
    /\ pythonExecutable = {getPythonExePath(pythonInstallationPath, usingExistingPython)}
    /\ installInProgress = FALSE
    /\ installCompletion = 0
    /\ kernelSetupCache = {}
    /\ completions = <<>>
    /\ caller = [p \in 1..MaxInstallCalls |-> NotCalled]
    /\ operations = <<>>
    /\ packageCalls = <<>>
    /\ validation = NoValidation
    /\ validationResult = NoResult
    /\ expected = {}
    /\ inputBoxCalls = <<>>
    /\ inputBoxReturn = {}
    /\ validationList = <<>>
    /\ baseline = "newProjectFileBaseline"
    /\ projFile = newProjectFileBaseline
    /\ backupFile = {}
    /\ scriptFiles = EmptyVariables
    /\ project = readProjFile(projFile)
    /\ before = [project |-> project, projFile |-> projFile]
    /\ calls = <<>>
    /\ messages = <<>>
    /\ pc = "idle"
    /\ channel = "userDataAutoSync"
    /\ channelCalls = <<>>
    /\ serviceCalls = <<>>
    /\ TabNotRendered
    /\ DialogNotOpened

NextPackages ==
    \/ UpgradeCalled
    \/ RequiredPackagesCalled
    \/ UninstallCalled
    \/ \E j \in 1..MaxPackageCalls :
        \/ PackagesListed(j)
        \/ UpgradeResumes(j)
        \/ PipInstallEnds(j)
        \/ RequiredPackagesChecked(j)
        \/ SetupCompleted(j)
        \/ UninstallEnds(j)

SpecPackages == InitPackages /\ [][NextPackages]_vars

----------------------------------------------------------------------------
(* Claims on the package calls.                                             *)

\* whether upgradePythonPackages call c is to install its i-th requested package
Wanted(c, i) ==
    \/ c.forceInstall
    \/ \E installed \in c.seen :
        \/ VersionIn(installed, c.packages[i].name) = <<>>
        \/ comparePackageVersions(VersionIn(installed, c.packages[i].name),
                                  c.packages[i].version) = -1

\* the pip command installs exactly the wanted packages, each once, each with >=
InstallsWanted(c, arguments) ==
    /\ Len(arguments) = Cardinality({ i \in 1..Len(c.packages) : Wanted(c, i) })
    /\ \A i \in 1..Len(c.packages) :
        Wanted(c, i) <=> \E k \in 1..Len(arguments) :
                            arguments[k] = [name |-> c.packages[i].name,
                                            versionSpecifier |-> ">=",
                                            version |-> c.packages[i].version]
    /\ \A k \in 1..Len(arguments) : arguments[k].versionSpecifier = ">="

MissesPackage(kernelDisplayName) ==
    \E i \in 1..Len(getRequiredPackagesForKernel(kernelDisplayName)) :
        installedPip[getRequiredPackagesForKernel(kernelDisplayName)[i].name] = <<>>

\* an uninstall of a required package has completed
UninstallCompleted ==
    \E j \in 1..Len(packageCalls) :
        /\ packageCalls[j].method \in {"uninstallPipPackages", "uninstallCondaPackages"}
        /\ packageCalls[j].pc = "done"
        /\ packageCalls[j].result = {TRUE}
        /\ clearsCache(packageCalls[j].packages)

\* C18: once an uninstall of a required package has completed, the kernel setup cache
\* holds no entry for a kernel one of whose required packages is missing, whatever
\* checks and prompts run beside it.
C18_CacheNotStale ==
    UninstallCompleted => \A kernel \in kernelSetupCache : ~ MissesPackage(kernel)

----------------------------------------------------------------------------
(* The browse tab of the connection dialog (connectionBrowseTab.ts): the    *)
(* filter box, applyFilter and expandAll over a small tree of connections.  *)
(* The tree is the model with the saved connections and one provider:       *)
(*    model - saved    - group  - profileB                                  *)
(*                     - profileA                                           *)
(*          - provider - folder - item                                      *)
(*                     - leaf                                               *)

MaxFilterChanges == 2   \* applyFilter runs, each fired by the debounced filter box

ChildrenOf ==
    [model |-> <<"saved", "provider">>, saved |-> <<"group", "profileA">>,
     group |-> <<"profileB">>, profileA |-> <<>>, profileB |-> <<>>,
     provider |-> <<"folder", "leaf">>, folder |-> <<"item">>, item |-> <<>>,
     leaf |-> <<>>]

KindOf ==
    [model |-> "TreeModel", saved |-> "SavedConnectionNode",
     group |-> "ConnectionProfileGroup", profileA |-> "ConnectionProfile",
     profileB |-> "ConnectionProfile", provider |-> "ConnectionDialogTreeProviderElement",
     folder |-> "ITreeItemFromProvider", item |-> "ITreeItemFromProvider",
     leaf |-> "ITreeItemFromProvider"]

\* the title of a profile and the label of a tree item, letter by letter
TitleOf ==
    [model |-> <<>>, saved |-> <<>>, group |-> <<>>, provider |-> <<>>,
     profileA |-> <<"A">>, profileB |-> <<"b">>, folder |-> <<"f">>, item |-> <<"a">>,
     leaf |-> <<"b">>]

\* element.collapsibleState !== TreeItemCollapsibleState.None
Collapsible(node) == node = "folder"

FiltersTried == {"", "a", "b"}

LowerCase(letter) ==
    CASE letter = "A" -> "a" [] letter = "B" -> "b" [] OTHER -> letter

\* DataSource._filterRegex.test(title): the filter, one letter here, is in the title,
\* whatever the case
filterRegexTest(filter, title) ==
    filter = "" \/ \E k \in 1..Len(title) : LowerCase(title[k]) = LowerCase(filter)

\* DataSource.expandableTreeNodes, of these tree nodes
expandableNode(node) ==
    \/ KindOf[node] \in {"TreeModel", "ConnectionDialogTreeProviderElement",
                         "SavedConnectionNode", "ConnectionProfileGroup"}
    \/ (KindOf[node] = "ITreeItemFromProvider" /\ Collapsible(node))
expandableTreeNodes(nodes) == SelectSeq(nodes, expandableNode)

\* the children DataSource.getChildren(element) returns and pushes to treeNodes
getChildren(element, filter) ==
    IF KindOf[element] = "ConnectionProfile" THEN <<>>
    ELSE IF filter = {} \/ filter = {""} THEN ChildrenOf[element]
    ELSE IF KindOf[element] \in {"SavedConnectionNode", "ConnectionProfileGroup"}
    THEN SelectSeq(ChildrenOf[element], LAMBDA item :
            \/ KindOf[item] = "ConnectionProfileGroup"
            \/ \E f \in filter : filterRegexTest(f, TitleOf[item]))
    ELSE IF KindOf[element] = "ITreeItemFromProvider"
    THEN SelectSeq(ChildrenOf[element], LAMBDA item :
            \/ Collapsible(item)
            \/ \E f \in filter : filterRegexTest(f, TitleOf[item]))
    ELSE ChildrenOf[element]

InSeq(x, seq) == \E k \in 1..Len(seq) : seq[k] = x

\* a call of DataSource.getChildren as a run of applyFilter keeps it in its history:
\* the element asked for, the filter at the time and the children returned
Fetch(element, filter) ==
    [element |-> element, filter |-> filter, children |-> getChildren(element, filter)]

\* expandAll: the expandable tree nodes not expanded yet
treeItemsLeft(nodes, expandedTreeItems) ==
    SelectSeq(expandableTreeNodes(nodes), LAMBDA el : ~ InSeq(el, expandedTreeItems))

\* expandAll at the head of its while loop, with these items to expand: it ends, or calls
\* tree.expand on the first of them and awaits it
ExpandsNext(r, run, items, stillOutstanding) ==
    IF Len(items) = 0
    THEN /\ filterRuns' = [filterRuns EXCEPT ![r] =
                [run EXCEPT !.pc = "done", !.treeItemsToExpand = items, !.at = 0]]
         /\ outstanding' = stillOutstanding
    ELSE /\ filterRuns' = [filterRuns EXCEPT ![r] =
                [run EXCEPT !.pc = "expand", !.treeItemsToExpand = items, !.at = 1]]
         /\ outstanding' = stillOutstanding \cup {<<r, items[1]>>}

\* the debounced applyFilter fires: setFilter, and refresh up to its await of
\* tree.updateChildren
ApplyFilter ==
    /\ Len(filterRuns) < MaxFilterChanges
    /\ \E value \in FiltersTried :
        dataSourceFilter' = {value}
    /\ filterRuns' = Append(filterRuns,
            [pc |-> "refresh", expandedTreeItems |-> <<>>, treeItemsToExpand |-> <<>>,
             at |-> 0, fetched |-> {}])
    /\ UNCHANGED <<treeNodes, loaded, outstanding>>
    /\ UNCHANGED notBrowse

\* tree.updateChildren has asked the data source for the children of the model anew;
\* applyFilter goes on with expandAll, up to its first await
Refreshed(r) ==
    /\ r <= Len(filterRuns)
    /\ filterRuns[r].pc = "refresh"
    /\ treeNodes' = getChildren("model", dataSourceFilter)
    /\ loaded' = {"model"}
    /\ ExpandsNext(r, [filterRuns[r] EXCEPT !.fetched = {Fetch("model", dataSourceFilter)}],
                   expandableTreeNodes(getChildren("model", dataSourceFilter)), outstanding)
    /\ UNCHANGED dataSourceFilter
    /\ UNCHANGED notBrowse

\* the tree nodes once tree.expand(node) has resolved: the tree asks the data source for
\* the children of a node it has not asked for yet
nodesAfterExpand(node) ==
    IF node \in loaded THEN treeNodes
    ELSE treeNodes \o getChildren(node, dataSourceFilter)

\* the tree.expand call that run r awaits resolves; expandAll goes on to its next await
ExpandResolved(r) ==
    /\ r <= Len(filterRuns)
    /\ filterRuns[r].pc = "expand"
    /\ LET run == filterRuns[r]
           node == run.treeItemsToExpand[run.at]
           stillOutstanding == outstanding \ {<<r, node>>}
           fetched == IF node \in loaded THEN {} ELSE {Fetch(node, dataSourceFilter)}
       IN  /\ treeNodes' = nodesAfterExpand(node)
           /\ loaded' = loaded \cup {node}
           /\ IF run.at < Len(run.treeItemsToExpand)
              THEN /\ filterRuns' = [filterRuns EXCEPT ![r].at = run.at + 1,
                                                        ![r].fetched = fetched]
                   /\ outstanding' = stillOutstanding
                                        \cup {<<r, run.treeItemsToExpand[run.at + 1]>>}
              ELSE ExpandsNext(r,
                        [run EXCEPT !.expandedTreeItems = @ \o run.treeItemsToExpand,
                                    !.fetched = fetched],
                        treeItemsLeft(nodesAfterExpand(node),
                                      run.expandedTreeItems \o run.treeItemsToExpand),
                        stillOutstanding)
    /\ UNCHANGED dataSourceFilter
    /\ UNCHANGED notBrowse

\* the browse tab once rendered: renderTree has set the model as the tree's input
InitBrowse ==
    /\ dataSourceFilter = {}
    /\ treeNodes = getChildren("model", {})
    /\ loaded = {"model"}
    /\ outstanding = {}
    /\ filterRuns = <<>>
    /\ NoInstallation
    /\ DialogNotOpened
    /\ validation = NoValidation
    /\ validationResult = NoResult
    /\ expected = {}
    /\ inputBoxCalls = <<>>
    /\ inputBoxReturn = {}
    /\ validationList = <<>>
    /\ baseline = "newProjectFileBaseline"
    /\ projFile = newProjectFileBaseline
    /\ backupFile = {}
    /\ scriptFiles = EmptyVariables
    /\ project = readProjFile(projFile)
    /\ before = [project |-> project, projFile |-> projFile]
    /\ calls = <<>>
    /\ messages = <<>>
    /\ pc = "idle"
    /\ channel = "userDataAutoSync"
    /\ channelCalls = <<>>
    /\ serviceCalls = <<>>

NextBrowse ==
    \/ ApplyFilter
    \/ \E r \in 1..MaxFilterChanges :
        \/ Refreshed(r)
        \/ ExpandResolved(r)

SpecBrowse == InitBrowse /\ [][NextBrowse]_vars

\* the expandable nodes of the tree under the filter, from these nodes down
RECURSIVE ExpandableBelow(_, _)
ExpandableBelow(nodes, filter) ==
    IF nodes = <<>> THEN {}
    ELSE (IF expandableNode(Head(nodes))
          THEN {Head(nodes)} \cup ExpandableBelow(getChildren(Head(nodes), filter), filter)
          ELSE {})
         \cup ExpandableBelow(Tail(nodes), filter)

\* C20: at no time are two tree.expand calls outstanding, whatever applyFilter runs
\* overlap; an expandAll that has ended has expanded every expandable node of the tree.
C20_OneByOne ==
    /\ Cardinality(outstanding) <= 1
    /\ \A r \in 1..Len(filterRuns) :
        filterRuns[r].pc = "done"
            => \A node \in ExpandableBelow(getChildren("model", dataSourceFilter),
                                           dataSourceFilter) :
                    InSeq(node, filterRuns[r].expandedTreeItems)

\* the filter of a call is set and not empty: if (this._filter)
FilterSet(call) == call.filter # {} /\ call.filter # {""}
\* the item matches the filter of the call, whatever the case
MatchesFilter(call, item) == \E f \in call.filter : filterRegexTest(f, TitleOf[item])

\* C21: whatever the parent, with a filter set every child that getChildren returns
\* is expandable (a group, a collapsible item) or matches the filter, and every
\* expandable child is returned; with no filter or an empty one, every child is returned.
C21_FilterKeeps ==
    \A r \in 1..Len(filterRuns) : \A call \in filterRuns[r].fetched :
        IF FilterSet(call)
        THEN \A item \in {ChildrenOf[call.element][k] :
                                k \in 1..Len(ChildrenOf[call.element])} :
                /\ InSeq(item, call.children)
                        => (expandableNode(item) \/ MatchesFilter(call, item))
                /\ expandableNode(item) => InSeq(item, call.children)
        ELSE call.children = ChildrenOf[call.element]

----------------------------------------------------------------------------
(* The new project dialog of the data workspace extension                   *)
(* (newProjectDialog.ts): its name and location boxes and validate().       *)
(* A path is the sequence of its segments.  On disk, "home" is a directory, *)
(* "notes" is a file and "gone" does not exist; what "home/proj" is, and    *)
(* the paths stat fails on, is drawn when the dialog opens.                 *)

MaxValidateCalls == 1   \* validate() calls, one for each press of the OK button

NamesTyped == {"", "proj", "other"}
LocationsTyped == {"", "home", "notes", "gone"}
KindsOnDisk == {"directory", "file", "none"}
DeniedTried == {{}, {<<"home">>}, {<<"home", "proj">>}}

\* the message of the error stat fails with
statError == "EACCES: permission denied"

\* what is on disk at the path
kindOnDisk(path) ==
    IF path = <<"home">> THEN "directory"
    ELSE IF path = <<"notes">> THEN "file"
    ELSE IF path = <<"home", "proj">> THEN fileSystem.proj
    ELSE "none"

\* utils.directoryExist(path): "throws" when stat fails, else whether a directory is there
directoryExist(path) ==
    IF path \in fileSystem.denied THEN "throws"
    ELSE IF kindOnDisk(path) = "directory" THEN "true" ELSE "false"

\* path.join(location, name), for a name of one segment
pathJoin(location, name) ==
    IF name = "" THEN <<location>> ELSE <<location, name>>

\* the path of the second check: path.join(this.model.location, this.model.name)
MutantProjectPath(model) == <<model.location>>
projectPath(model) == pathJoin(model.location, model.name)

\* the messages of common/constants, and the message of a caught error
ProjectParentDirectoryNotExistError(location) ==
    [id |-> "ProjectParentDirectoryNotExistError", args |-> <<location>>]
ProjectDirectoryAlreadyExistError(name, location) ==
    [id |-> "ProjectDirectoryAlreadyExistError", args |-> <<name, location>>]
errMessage(text) == [id |-> "err.message", args |-> <<text>>]

\* the field of the model changes under the validate() calls that have not returned
Edited(runs, changed) ==
    [v \in 1..Len(runs) |->
        IF changed /\ runs[v].pc # "done" THEN [runs[v] EXCEPT !.edited = TRUE]
        ELSE runs[v]]

\* projectNameTextBox.onTextChanged
NameChanged ==
    /\ \E name \in NamesTyped :
        /\ dialogModel' = [dialogModel EXCEPT !.name = name]
        /\ validateRuns' = Edited(validateRuns, name # dialogModel.name)
    /\ UNCHANGED <<fileSystem, dialogMessage>>
    /\ UNCHANGED notDialog

\* locationTextBox.onTextChanged, and the folder picked with the browse button
LocationChanged ==
    /\ \E location \in LocationsTyped :
        /\ dialogModel' = [dialogModel EXCEPT !.location = location]
        /\ validateRuns' = Edited(validateRuns, location # dialogModel.location)
    /\ UNCHANGED <<fileSystem, dialogMessage>>
    /\ UNCHANGED notDialog

\* the dialog calls validate() when OK is pressed, which the required name and location
\* boxes allow once both are filled in; validate runs up to its first await
ValidateCalled ==
    /\ Len(validateRuns) < MaxValidateCalls
    /\ dialogModel.name # ""
    /\ dialogModel.location # ""
    /\ validateRuns' = Append(validateRuns,
            [pc |-> "parent", selected |-> dialogModel, edited |-> FALSE,
             path |-> <<dialogModel.location>>, shown |-> <<>>, returned |-> {}])
    /\ UNCHANGED <<dialogModel, fileSystem, dialogMessage>>
    /\ UNCHANGED notDialog

\* DialogBase.showErrorMessage(message), then return false
ReturnsFalse(v, message) ==
    /\ dialogMessage' = {message}
    /\ validateRuns' = [validateRuns EXCEPT ![v] =
            [@ EXCEPT !.pc = "done", !.shown = Append(@, message), !.returned = {FALSE}]]

\* directoryExist(this.model.location) settles
ParentDirectoryChecked(v) ==
    /\ v <= Len(validateRuns)
    /\ validateRuns[v].pc = "parent"
    /\ LET parentDirectoryExists == directoryExist(validateRuns[v].path)
       IN  IF parentDirectoryExists = "throws"
           THEN ReturnsFalse(v, errMessage(statError))
           ELSE IF parentDirectoryExists = "false"
           THEN ReturnsFalse(v, ProjectParentDirectoryNotExistError(dialogModel.location))
           ELSE /\ validateRuns' = [validateRuns EXCEPT ![v] =
                        [@ EXCEPT !.pc = "project", !.path = projectPath(dialogModel)]]
                /\ UNCHANGED dialogMessage
    /\ UNCHANGED <<dialogModel, fileSystem>>
    /\ UNCHANGED notDialog

\* directoryExist(path.join(this.model.location, this.model.name)) settles
ProjectDirectoryChecked(v) ==
    /\ v <= Len(validateRuns)
    /\ validateRuns[v].pc = "project"
    /\ LET projectDirectoryExists == directoryExist(validateRuns[v].path)
       IN  IF projectDirectoryExists = "throws"
           THEN ReturnsFalse(v, errMessage(statError))
           ELSE IF projectDirectoryExists = "true"
           THEN ReturnsFalse(v, ProjectDirectoryAlreadyExistError(dialogModel.name,
                                                                   dialogModel.location))
           ELSE /\ validateRuns' = [validateRuns EXCEPT ![v] =
                        [@ EXCEPT !.pc = "done", !.returned = {TRUE}]]
                /\ UNCHANGED dialogMessage
    /\ UNCHANGED <<dialogModel, fileSystem>>
    /\ UNCHANGED notDialog

\* the dialog once opened: new NewProjectDialogModel(), nothing shown
InitDialog ==
    /\ dialogModel = [name |-> "", location |-> ""]
    /\ \E kind \in KindsOnDisk, denied \in DeniedTried :
        fileSystem = [proj |-> kind, denied |-> denied]
    /\ dialogMessage = {}
    /\ validateRuns = <<>>
    /\ TabNotRendered
    /\ NoInstallation
    /\ validation = NoValidation
    /\ validationResult = NoResult
    /\ expected = {}
    /\ inputBoxCalls = <<>>
    /\ inputBoxReturn = {}
    /\ validationList = <<>>
    /\ baseline = "newProjectFileBaseline"
    /\ projFile = newProjectFileBaseline
    /\ backupFile = {}
    /\ scriptFiles = EmptyVariables
    /\ project = readProjFile(projFile)
    /\ before = [project |-> project, projFile |-> projFile]
    /\ calls = <<>>
    /\ messages = <<>>
    /\ pc = "idle"
    /\ channel = "userDataAutoSync"
    /\ channelCalls = <<>>
    /\ serviceCalls = <<>>

NextDialog ==
    \/ NameChanged
    \/ LocationChanged
    \/ ValidateCalled
    \/ \E v \in 1..MaxValidateCalls :
        \/ ParentDirectoryChecked(v)
        \/ ProjectDirectoryChecked(v)

SpecDialog == InitDialog /\ [][NextDialog]_vars

\* the validate() calls that have returned with the name and location left as they were
\* when OK was pressed
Validated ==
    {v \in 1..Len(validateRuns) :
        validateRuns[v].pc = "done" /\ ~ validateRuns[v].edited}

\* a directory check of the call fails: the check of the location, or, with the location
\* a directory, the check of the sub-directory
CheckThrows(location, name) ==
    \/ <<location>> \in fileSystem.denied
    \/ (kindOnDisk(<<location>>) = "directory" /\ <<location, name>> \in fileSystem.denied)

\* the one message the claim has for a call that returns false
MessageDue(location, name) ==
    IF CheckThrows(location, name) THEN errMessage(statError)
    ELSE IF kindOnDisk(<<location>>) # "directory"
    THEN ProjectParentDirectoryNotExistError(location)
    ELSE ProjectDirectoryAlreadyExistError(name, location)

\* C22: validate() always returns true or false; it returns true exactly when no check
\* throws, the selected location is a directory and has no sub-directory of the project's
\* name, and then shows nothing; otherwise it returns false after showing one message:
\* the error's, parent-directory-not-exist or project-directory-already-exist.
C22_ValidateDecides ==
    \A v \in Validated :
        LET run == validateRuns[v]
            location == run.selected.location
            name == run.selected.name
        IN  /\ run.returned \in {{TRUE}, {FALSE}}
            /\ run.returned = {TRUE}
                <=> /\ ~ CheckThrows(location, name)
                    /\ kindOnDisk(<<location>>) = "directory"
                    /\ kindOnDisk(<<location, name>>) # "directory"
            /\ run.returned = {TRUE} => run.shown = <<>>
            /\ run.returned = {FALSE} => run.shown = <<MessageDue(location, name)>>

\* a call has returned false with the message of the error its second directory check
\* threw, the location being a directory
C22_Witness ==
    \E v \in Validated :
        /\ validateRuns[v].returned = {FALSE}
        /\ validateRuns[v].shown = <<errMessage(statError)>>
        /\ Len(validateRuns[v].path) = 2

====
